---- MODULE Spec2Model ----
(***************************************************************************)
(* Classification-and-matching engine of the ShipStation customs tools:    *)
(* the title/HS-code classifier (utils/customs-rules.js), the similarity   *)
(* scorer (utils/fuzzy-matching.js), the customs-line matcher and patch    *)
(* builder (routes/products.js), the customs-line merge and the SKU        *)
(* generator (order-customs-updater.js).                                   *)
(*                                                                         *)
(* JavaScript strings are TLA+ strings; TLC evaluates Len, SubSeq and \o   *)
(* on them.  null and undefined are the strings Null and Undefined.        *)
(* The em dash U+2014 of a title is written "~": like the em dash it is a  *)
(* non-word, non-space, non-hyphen character for every regular expression  *)
(* of the source.                                                          *)
(***************************************************************************)
EXTENDS Integers, Sequences, FiniteSets, TLC

VARIABLES pc, inp, out, runs

vars == <<pc, inp, out, runs>>

\* null and undefined; no text of the model (a name, a title, a code) is the
\* word null or the word undefined
Null == "null"
Undefined == "undefined"

\* x is truthy (a field that is absent, null or '' is falsy)
Truthy(x) == x # Null /\ x # Undefined /\ x # ""
\* x || '' and String(x || '') for a string, null or undefined
OrEmpty(x) == IF Truthy(x) THEN x ELSE ""
\* a ?? b
Nullish(a, b) == IF a # Null /\ a # Undefined THEN a ELSE b
\* a parameter with the default value '' (title = '')
DefaultEmpty(x) == IF x = Undefined THEN "" ELSE x
\* the outcome of a call that throws a TypeError (a property read on null or
\* undefined, a call of something that is no function); no text of the model
\* is the word TypeError
TypeError == "TypeError"

(***************************************************************************)
(* Strings                                                                 *)
(***************************************************************************)
UpperAlpha == "ABCDEFGHIJKLMNOPQRSTUVWXYZ"
LowerAlpha == "abcdefghijklmnopqrstuvwxyz"
Digits == "0123456789"

Chars(s) == {SubSeq(s, i, i) : i \in 1..Len(s)}
CharAt(s, i) == IF i >= 1 /\ i <= Len(s) THEN SubSeq(s, i, i) ELSE ""

UpperSet == Chars(UpperAlpha)
LowerSet == Chars(LowerAlpha)
DigitSet == Chars(Digits)

\* \s of a JavaScript regular expression and the white space of trim(): space,
\* tab, line feed, carriage return and form feed (the vertical tab and the
\* white space beyond ASCII cannot be written in a string of this module)
WhiteSpace == {" ", "\t", "\n", "\r", "\f"}
\* the line terminators, which . does not match
LineTerminators == {"\n", "\r"}
IsSpace(c) == c \in WhiteSpace
\* \w of a JavaScript regular expression
WordCharSet == UpperSet \cup LowerSet \cup DigitSet \cup {"_"}
IsWordChar(c) == c \in WordCharSet

LowerOf == [c \in UpperSet |->
             SubSeq(LowerAlpha, CHOOSE k \in 1..26 : SubSeq(UpperAlpha, k, k) = c,
                                CHOOSE k \in 1..26 : SubSeq(UpperAlpha, k, k) = c)]
UpperOf == [c \in LowerSet |->
             SubSeq(UpperAlpha, CHOOSE k \in 1..26 : SubSeq(LowerAlpha, k, k) = c,
                                CHOOSE k \in 1..26 : SubSeq(LowerAlpha, k, k) = c)]

LowerChar(c) == IF c \in UpperSet THEN LowerOf[c] ELSE c
UpperChar(c) == IF c \in LowerSet THEN UpperOf[c] ELSE c

RECURSIVE toLowerCase(_)
toLowerCase(s) ==
  IF s = "" THEN "" ELSE LowerChar(Head(s)) \o toLowerCase(Tail(s))

RECURSIVE toUpperCase(_)
toUpperCase(s) ==
  IF s = "" THEN "" ELSE UpperChar(Head(s)) \o toUpperCase(Tail(s))

\* s.replace(/[^0-9]/g, '')
RECURSIVE DigitsOnly(_)
DigitsOnly(s) ==
  IF s = "" THEN ""
  ELSE (IF Head(s) \in DigitSet THEN Head(s) ELSE "") \o DigitsOnly(Tail(s))

\* s.startsWith(p), s.includes(p), s.slice(-n)
startsWith(s, p) == Len(s) >= Len(p) /\ SubSeq(s, 1, Len(p)) = p
includes(s, p) ==
  \E i \in 1..(Len(s) + 1) : i + Len(p) - 1 <= Len(s) /\ SubSeq(s, i, i + Len(p) - 1) = p
sliceLast(s, n) == IF Len(s) <= n THEN s ELSE SubSeq(s, Len(s) - n + 1, Len(s))

\* s.trim()
RECURSIVE trimStart(_)
trimStart(s) == IF s # "" /\ IsSpace(Head(s)) THEN trimStart(Tail(s)) ELSE s
RECURSIVE trimEnd(_)
trimEnd(s) ==
  IF s # "" /\ IsSpace(SubSeq(s, Len(s), Len(s)))
  THEN trimEnd(SubSeq(s, 1, Len(s) - 1)) ELSE s
trim(s) == trimEnd(trimStart(s))

(***************************************************************************)
(* Object literals.  The tables of the program are object literals, so a   *)
(* lookup table[key] also finds the properties of Object.prototype.        *)
(***************************************************************************)
ObjectPrototypeKeys ==
  {"constructor", "toString", "toLocaleString", "valueOf", "hasOwnProperty",
   "isPrototypeOf", "propertyIsEnumerable", "__proto__", "__defineGetter__",
   "__defineSetter__", "__lookupGetter__", "__lookupSetter__"}

\* table[key] for an inherited key: a built-in function, written as String(...)
\* writes it (the text under which it is used as a property key); __proto__ is
\* Object.prototype itself
Inherited(key) ==
  IF key = "constructor" THEN "function Object() { [native code] }"
  ELSE IF key = "__proto__" THEN "[object Object]"
  ELSE "function " \o key \o "() { [native code] }"

\* Object(v): an object is the function from its own property names to their
\* values; Object(null) and Object(undefined) are {}, Object of a string is the
\* String object with the characters at 0, 1, ...
ObjectOf(v) ==
  IF v \in {Null, Undefined} THEN <<>>
  ELSE [k \in 0..(Len(v) - 1) |-> CharAt(v, k + 1)]

\* const f = table[key]; f(v) for an inherited key: the built-in function is
\* called without a this value
InheritedCall(key, v) ==
  CASE key = "constructor" -> ObjectOf(v)
    [] key = "toString" -> "[object Undefined]"
    [] key = "isPrototypeOf" -> FALSE
    [] OTHER -> TypeError

(***************************************************************************)
(* Regular expressions.  A regular expression is a sequence of atoms       *)
(* [t, v]: "lit" a literal, "opt" an optional literal (x?), "ws0" \s*,     *)
(* "ws1" \s+, "b" \b, "any" .*, "alt" an alternation of regular            *)
(* expressions, "bos" ^ and "eos" $.  Ends gives the positions at which a  *)
(* match of re[i..] that starts at position p can end.                     *)
(***************************************************************************)
Lit(v) == [t |-> "lit", v |-> v]
Opt(v) == [t |-> "opt", v |-> v]
Ws0 == [t |-> "ws0", v |-> ""]
Ws1 == [t |-> "ws1", v |-> ""]
B == [t |-> "b", v |-> ""]
Dots == [t |-> "any", v |-> ""]
Alt(v) == [t |-> "alt", v |-> v]
\* \d, \d+, \s, ^ and $
Dig == [t |-> "dig", v |-> ""]
Digs1 == [t |-> "dig1", v |-> ""]
Sp == [t |-> "sp", v |-> ""]
Bos == [t |-> "bos", v |-> ""]
Eos == [t |-> "eos", v |-> ""]

LitAt(s, p, v) == p + Len(v) - 1 <= Len(s) /\ SubSeq(s, p, p + Len(v) - 1) = v

\* positions reachable from p over white space only
SpaceRun(s, p) ==
  {q \in p..(Len(s) + 1) : \A k \in p..(q - 1) : IsSpace(CharAt(s, k))}

RECURSIVE Ends(_, _, _, _)
Ends(re, i, s, p) ==
  IF i > Len(re) THEN {p}
  ELSE LET a == re[i]
           step ==
             CASE a.t = "lit" -> IF LitAt(s, p, a.v) THEN {p + Len(a.v)} ELSE {}
               [] a.t = "opt" -> {p} \cup (IF LitAt(s, p, a.v) THEN {p + Len(a.v)} ELSE {})
               [] a.t = "ws0" -> SpaceRun(s, p)
               [] a.t = "ws1" -> SpaceRun(s, p) \ {p}
               [] a.t = "b"   -> IF IsWordChar(CharAt(s, p - 1)) # IsWordChar(CharAt(s, p))
                                 THEN {p} ELSE {}
               [] a.t = "any" -> {q \in p..(Len(s) + 1) :
                                    \A k \in p..(q - 1) : CharAt(s, k) \notin LineTerminators}
               [] a.t = "dig" -> IF CharAt(s, p) \in DigitSet THEN {p + 1} ELSE {}
               [] a.t = "dig1" -> {q \in (p + 1)..(Len(s) + 1) :
                                     \A k \in p..(q - 1) : CharAt(s, k) \in DigitSet}
               [] a.t = "sp"  -> IF IsSpace(CharAt(s, p)) THEN {p + 1} ELSE {}
               [] a.t = "bos" -> IF p = 1 THEN {p} ELSE {}
               [] a.t = "eos" -> IF p = Len(s) + 1 THEN {p} ELSE {}
               [] a.t = "alt" -> UNION {Ends(a.v[k], 1, s, p) : k \in 1..Len(a.v)}
       IN UNION {Ends(re, i + 1, s, q) : q \in step}

\* the positions of s where \b holds
WordBounds(s) ==
  {p \in 1..(Len(s) + 1) : IsWordChar(CharAt(s, p - 1)) # IsWordChar(CharAt(s, p))}

\* whether every match of re starts at a word boundary
RECURSIVE StartsAtBound(_)
StartsAtBound(re) ==
  /\ Len(re) > 0
  /\ \/ re[1].t = "b"
     \/ /\ re[1].t = "alt"
        /\ \A k \in 1..Len(re[1].v) : StartsAtBound(re[1].v[k])

\* rx.test(s), the search tried from the start positions in bounds only when
\* no match can start elsewhere (bounds = WordBounds(s))
TestFrom(re, s, bounds) ==
  \E p \in (IF StartsAtBound(re) THEN bounds ELSE 1..(Len(s) + 1)) :
     Ends(re, 1, s, p) # {}

\* rx.test(s)
Test(re, s) == TestFrom(re, s, WordBounds(s))
\* rx.test(s) for a regular expression with the i flag (its literals in lower case)
TestI(re, s) == Test(re, toLowerCase(s))

\* /\b(w1|w2|...)\b/
Word(ws) == <<B, Alt([k \in 1..Len(ws) |-> <<Lit(ws[k])>>]), B>>

(***************************************************************************)
(* utils/customs-rules.js                                                  *)
(***************************************************************************)
INSERT_KEYWORDS == Word(<<"inserts">>)
PLANNER_KEYWORDS == Word(<<"planner">>)
NOTEBOOK_KEYWORDS == Word(<<"notebook", "sketchbook">>)
STICKY_KEYWORDS ==
  <<B, Alt(<< <<Lit("sticky")>>,
              <<Lit("stickies")>>,
              <<Lit("sticky"), Ws0, Lit("note"), Opt("s")>>,
              <<Lit("post"), Opt("-"), Lit("it"), Opt("s")>> >>), B>>
NOTEPAD_KEYWORDS == Word(<<"notepad">>)
STICKER_KEYWORDS ==
  << <<Lit("monthly"), Ws1, Lit("tab"), Opt("s")>>,
     <<B, Lit("sticker"), Opt("s"), B>>,
     <<Lit("time"), Ws0, Lit("management")>>,
     <<Lit("square"), Ws0, Lit("bullet"), Opt("s")>>,
     <<B, Lit("finance"), B>>,
     <<B, Lit("wellness"), B>>,
     <<Lit("wildflower"), Opt("s")>>,
     <<Lit("botanical"), Ws1, Lit("sticker"), Opt("s")>>,
     <<Lit("sticker"), Ws0, Lit("sheet")>>,
     <<Lit("shaded"), Ws1, Lit("box"), Opt("es")>>,
     <<Lit("list"), Opt("s"), Ws0, Lit("-"), Ws0, Lit("top"), Ws0, Lit("three")>>,
     <<B, Lit("highlight"), Opt("s"), B>> >>

titleForcesSticker(title) ==
  \E k \in 1..Len(STICKER_KEYWORDS) : TestI(STICKER_KEYWORDS[k], OrEmpty(title))

fixMalformedHS(code) ==
  LET cleaned == DigitsOnly(OrEmpty(code))
  IN IF Len(cleaned) = 8 /\ startsWith(cleaned, "2048") THEN "4" \o cleaned
     ELSE IF Len(cleaned) = 7 /\ startsWith(cleaned, "820")
          THEN "4" \o SubSeq(cleaned, 1, 3) \o "0" \o SubSeq(cleaned, 4, Len(cleaned))
     ELSE IF cleaned = "48201020" THEN cleaned \o "00"
     ELSE cleaned

JewelryWords == <<"bracelet", "pendant", "stud", "earring", "jewellery", "jewelry">>

\* the tests of identifyProductFromTitle after the notepad keywords, each on
\* a regular expression literal of its own
otherProduct(t) ==
     CASE Test(Word(<<"pen">>), t) -> "pen"
       [] OTHER ->
     CASE Test(Word(<<"elastic">>), t) -> "elastic"
       [] OTHER ->
     CASE Test(Word(<<"charm">>), t) -> "charm"
       [] OTHER ->
     CASE Test(<<B, Lit("clip")>>, t) -> "clip"
       [] OTHER ->
     CASE Test(Word(<<"tape">>), t) -> "tape"
       [] OTHER ->
     CASE Test(Word(<<"pocket">>), t) -> "pocket"
       [] OTHER ->
     CASE \E k \in 1..Len(JewelryWords) : includes(t, JewelryWords[k]) -> "jewelry"
       [] OTHER -> Null

\* test(title) of the literals reads String(title): Null and Undefined are
\* the strings "null" and "undefined"
identifyProductFromTitle(title) ==
  LET t == toLowerCase(OrEmpty(title))
  IN CASE titleForcesSticker(title) -> "sticker"
       [] OTHER ->
     CASE TestI(INSERT_KEYWORDS, t) -> "insert"
       [] OTHER ->
     CASE TestI(STICKY_KEYWORDS, t) -> "sticky"
       [] OTHER ->
     CASE TestI(PLANNER_KEYWORDS, t) -> "planner"
       [] OTHER ->
     CASE TestI(<<B, Lit("mt"), Ws1, Lit("washi"), B>>, title) -> "tape"
       [] OTHER ->
     CASE TestI(NOTEBOOK_KEYWORDS, t) ->
            IF TestI(Word(<<"b5">>), title) THEN "notebook-b5" ELSE "notebook"
       [] OTHER ->
     CASE TestI(NOTEPAD_KEYWORDS, t) -> "notepad"
       [] OTHER -> otherProduct(t)

HsDesc(hs, desc) == [hs |-> hs, desc |-> desc]

getCorrectHSAndDescription(productType) ==
  CASE productType = "sticker"     -> HsDesc("4911998000", "Paper sticker")
    [] productType = "sticky"      -> HsDesc("4820102020", "Sticky notepad")
    [] productType = "planner"     -> HsDesc("4820102010", "Planner agenda (bound diary)")
    [] productType = "notebook-b5" -> HsDesc("4820102030", "Notebook (sewn journal, B5 size)")
    [] productType = "notebook"    -> HsDesc("4820102060", "Notebook (bound journal)")
    [] productType = "notepad"     -> HsDesc("4820102020", "Notepad")
    [] productType = "insert"      -> HsDesc("4820900000", "Planner inserts (loose refills)")
    [] productType = "pen"         -> HsDesc("9608100000", "Gel ink pen")
    [] productType = "elastic"     -> HsDesc("6307909800", "Elastic for notebook")
    [] productType = "charm"       -> HsDesc("7117909000", "Charm for notebook ribbon")
    [] productType = "clip"        -> HsDesc("8305903010", "Office paper clips")
    [] productType = "tape"        -> HsDesc("4811412100", "Decorative tape for journaling")
    [] productType = "pocket"      -> HsDesc("4811412100", "Paper pocket for notebook")
    [] productType = "jewelry"     -> HsDesc("7113115000", "Sterling silver jewellery")
    [] OTHER                       -> HsDesc(Null, Null)

normHS(code) == DigitsOnly(Nullish(code, ""))

\* the description the jewellery entries derive from the title
JewelleryDesc(t) ==
  IF includes(t, "bracelet") THEN "Sterling silver jewellery bracelets"
  ELSE IF includes(t, "pendant") THEN "Sterling silver jewellery pendants"
  ELSE IF includes(t, "stud") THEN "Sterling silver jewellery studs"
  ELSE IF includes(t, "earring") THEN "Sterling silver jewellery earrings"
  ELSE "Sterling silver jewellery"

StickyDesc(t) ==
  IF includes(t, "sticky") \/ includes(t, "stickies") THEN "Sticky notepad" ELSE "Notepad"

PocketDesc(t) ==
  IF includes(t, "pocket") THEN "Paper pocket for notebook"
  ELSE "Decorative tape for journaling"

HS_KEYS ==
  {"4820102010", "4820102060", "4820102030", "4820102020", "4911998000",
   "9608100000", "4820900000", "8305903010", "6307909800", "7117909000",
   "9608600000", "4811412100", "7113115000"}

\* HS_DESCRIPTION_RULES[key](title); Undefined when the table has no such key
\* (pickCustomsDescription asks with a key of digits only)
HS_DESCRIPTION_RULES(key, title) ==
  LET t == toLowerCase(DefaultEmpty(title))
  IN CASE key = "4820102010" -> "Planner agenda (bound diary)"
       [] key = "4820102060" -> "Notebook (bound journal)"
       [] key = "4820102030" -> "Notebook (sewn journal, B5 size)"
       [] key = "4820102020" -> StickyDesc(t)
       [] key = "4911998000" -> "Paper sticker"
       [] key = "9608100000" -> "Gel ink pen"
       [] key = "4820900000" -> "Planner inserts (loose refills)"
       [] key = "8305903010" -> "Office paper clips"
       [] key = "6307909800" -> "Elastic for notebook"
       [] key = "7117909000" -> "Charm for notebook ribbon"
       [] key = "9608600000" -> "Refills for ballpoint pen"
       [] key = "4811412100" -> PocketDesc(t)
       [] key = "7113115000" -> JewelleryDesc(t)
       [] key \in ObjectPrototypeKeys -> InheritedCall(key, title)
       [] OTHER -> Undefined

\* h.startsWith throws when h is null or undefined (pickCustomsDescription
\* passes the string normHS returned)
pickByPrefix(h, title) ==
  LET t == toLowerCase(DefaultEmpty(title))
      last4 == sliceLast(h, 4)
  IN IF h \in {Null, Undefined} THEN TypeError
     ELSE IF startsWith(h, "48201020") THEN
          (IF last4 = "2010" THEN "Planner agenda (bound diary)"
           ELSE IF last4 = "2060" THEN "Notebook (bound journal)"
           ELSE IF last4 = "2030" THEN "Notebook (sewn journal, B5 size)"
           ELSE IF last4 = "2020" THEN StickyDesc(t)
           ELSE "Notebook (bound journal)")
     ELSE IF startsWith(h, "4911") THEN "Paper sticker"
     ELSE IF startsWith(h, "960810") THEN "Gel ink pen"
     ELSE IF startsWith(h, "960860") THEN "Refills for ballpoint pen"
     ELSE IF startsWith(h, "8305") THEN "Office paper clips"
     ELSE IF startsWith(h, "630790") THEN "Elastic for notebook"
     ELSE IF startsWith(h, "481141") THEN PocketDesc(t)
     ELSE IF startsWith(h, "711311") THEN JewelleryDesc(t)
     ELSE IF startsWith(h, "7117") THEN "Charm for notebook ribbon"
     ELSE Null

Pick(desc, overrideHS, rule) == [desc |-> desc, overrideHS |-> overrideHS, rule |-> rule]

\* a classifier that trusts the stored code before the title
pickCustomsDescription_codeFirst(harmonizedCode, titleOrDesc) ==
  LET title == OrEmpty(titleOrDesc)
      productType == identifyProductFromTitle(title)
      correct == getCorrectHSAndDescription(productType)
      key == normHS(fixMalformedHS(harmonizedCode))
      exact == HS_DESCRIPTION_RULES(key, title)
      fuzzy == pickByPrefix(key, title)
  IN IF exact # Undefined THEN Pick(exact, Undefined, "exact")
     ELSE IF productType # Null /\ correct.hs # Null
     THEN Pick(correct.desc, correct.hs, "title-" \o productType)
     ELSE IF fuzzy # Null THEN Pick(fuzzy, Undefined, "prefix")
     ELSE Pick(title, Undefined, "fallback")

\* a classifier whose last resort is a default product instead of the fallback
pickCustomsDescription_defaultProduct(harmonizedCode, titleOrDesc) ==
  LET title == OrEmpty(titleOrDesc)
      productType == identifyProductFromTitle(title)
      correct == getCorrectHSAndDescription(productType)
      key == normHS(fixMalformedHS(harmonizedCode))
      exact == HS_DESCRIPTION_RULES(key, title)
      fuzzy == pickByPrefix(key, title)
  IN IF productType # Null /\ correct.hs # Null
     THEN Pick(correct.desc, correct.hs, "title-" \o productType)
     ELSE IF exact # Undefined THEN Pick(exact, Undefined, "exact")
     ELSE IF fuzzy # Null THEN Pick(fuzzy, Undefined, "prefix")
     ELSE Pick("Notebook (bound journal)", Undefined, "prefix")

\* a classifier that asks the prefix table before the exact table
pickCustomsDescription_prefixFirst(harmonizedCode, titleOrDesc) ==
  LET title == OrEmpty(titleOrDesc)
      productType == identifyProductFromTitle(title)
      correct == getCorrectHSAndDescription(productType)
      key == normHS(fixMalformedHS(harmonizedCode))
      exact == HS_DESCRIPTION_RULES(key, title)
      fuzzy == pickByPrefix(key, title)
  IN IF productType # Null /\ correct.hs # Null
     THEN Pick(correct.desc, correct.hs, "title-" \o productType)
     ELSE IF fuzzy # Null THEN Pick(fuzzy, Undefined, "prefix")
     ELSE IF exact # Undefined THEN Pick(exact, Undefined, "exact")
     ELSE Pick(title, Undefined, "fallback")

pickCustomsDescription(harmonizedCode, titleOrDesc) ==
  LET title == OrEmpty(titleOrDesc)
      productType == identifyProductFromTitle(title)
      correct == getCorrectHSAndDescription(productType)
      key == normHS(fixMalformedHS(harmonizedCode))
      exact == HS_DESCRIPTION_RULES(key, title)
      fuzzy == pickByPrefix(key, title)
  IN IF productType # Null /\ correct.hs # Null
     THEN Pick(correct.desc, correct.hs, "title-" \o productType)
     ELSE IF exact # Undefined THEN Pick(exact, Undefined, "exact")
     ELSE IF fuzzy # Null THEN Pick(fuzzy, Undefined, "prefix")
     ELSE Pick(title, Undefined, "fallback")

(***************************************************************************)
(* The regular expression objects of the module.  The keyword expressions  *)
(* are created once, when the module is loaded, and every call tests the   *)
(* same objects; lastIndex is the only thing such an object keeps between  *)
(* two calls of test.  regexes is the sequence of their lastIndex values,  *)
(* in the order STICKER_KEYWORDS[0..11], INSERT, STICKY, PLANNER, NOTEBOOK, *)
(* NOTEPAD.                                                                *)
(***************************************************************************)
KEYWORD_FLAGS_global == "gi"
KEYWORD_FLAGS == "i"

SHARED_KEYWORDS ==
  STICKER_KEYWORDS \o <<INSERT_KEYWORDS, STICKY_KEYWORDS, PLANNER_KEYWORDS,
                        NOTEBOOK_KEYWORDS, NOTEPAD_KEYWORDS>>

FreshRegexes == [k \in 1..Len(SHARED_KEYWORDS) |-> 0]

MaxOf(S) == CHOOSE x \in S : \A y \in S : x >= y

\* the start positions, after lastIndex, of the matches of re in s
MatchStarts(re, s, lastIndex) ==
  {p \in (lastIndex + 1)..(Len(s) + 1) : Ends(re, 1, s, p) # {}}

\* the match of a global or sticky test: the leftmost one; lastIndex becomes
\* its end, or 0 when there is none
testGlobal(re, s, starts) ==
  IF starts = {} THEN [found |-> FALSE, lastIndex |-> 0]
  ELSE [found |-> TRUE,
        lastIndex |-> MaxOf(Ends(re, 1, s, CHOOSE p \in starts : \A q \in starts : p <= q)) - 1]

\* RegExp.prototype.test: with the g or y flag the search starts at lastIndex
\* and moves it; without them it starts at 0 and leaves lastIndex alone
regexTest(re, flags, lastIndex, s) ==
  IF "g" \in Chars(flags) \/ "y" \in Chars(flags)
  THEN testGlobal(re, toLowerCase(s), MatchStarts(re, toLowerCase(s), lastIndex))
  ELSE [found |-> TestI(re, s), lastIndex |-> lastIndex]

\* the tests of the shared expressions k..upto, in order, up to the first
\* that finds a match: hit is its number (0: none)
RECURSIVE sharedTests(_, _, _, _)
sharedAfter(k, upto, regexes, title, r) ==
  IF r.found THEN [hit |-> k, regexes |-> [regexes EXCEPT ![k] = r.lastIndex]]
  ELSE sharedTests(k + 1, upto, [regexes EXCEPT ![k] = r.lastIndex], title)
sharedTests(k, upto, regexes, title) ==
  IF k > upto THEN [hit |-> 0, regexes |-> regexes]
  ELSE sharedAfter(k, upto, regexes, title,
                   regexTest(SHARED_KEYWORDS[k], KEYWORD_FLAGS, regexes[k], title))

Identified(type, regexes) == [type |-> type, regexes |-> regexes]

\* NOTEBOOK_KEYWORDS, NOTEPAD_KEYWORDS and the tests after them
identifyLate(w, title) ==
  IF w.hit = Len(STICKER_KEYWORDS) + 4
  THEN Identified(IF TestI(Word(<<"b5">>), title) THEN "notebook-b5" ELSE "notebook",
                  w.regexes)
  ELSE IF w.hit = Len(STICKER_KEYWORDS) + 5 THEN Identified("notepad", w.regexes)
  ELSE Identified(otherProduct(toLowerCase(title)), w.regexes)

\* the sticker keywords, INSERT_KEYWORDS, STICKY_KEYWORDS, PLANNER_KEYWORDS and
\* the tests after them
identifyEarly(w, title) ==
  IF w.hit = 0
  THEN IF TestI(<<B, Lit("mt"), Ws1, Lit("washi"), B>>, title)
       THEN Identified("tape", w.regexes)
       ELSE identifyLate(sharedTests(Len(STICKER_KEYWORDS) + 4, Len(STICKER_KEYWORDS) + 5,
                                     w.regexes, title), title)
  ELSE IF w.hit <= Len(STICKER_KEYWORDS) THEN Identified("sticker", w.regexes)
  ELSE Identified(<<"insert", "sticky", "planner">>[w.hit - Len(STICKER_KEYWORDS)], w.regexes)

\* identifyProductFromTitle as a call on the expression objects: the product
\* type and the objects as the call leaves them
identifyCall(regexes, title) ==
  identifyEarly(sharedTests(1, Len(STICKER_KEYWORDS) + 3, regexes, title), title)

pickOfType(id, harmonizedCode, title, correct, exact, fuzzy) ==
  [regexes |-> id.regexes,
   pick |-> IF id.type # Null /\ correct.hs # Null
            THEN Pick(correct.desc, correct.hs, "title-" \o id.type)
            ELSE IF exact # Undefined THEN Pick(exact, Undefined, "exact")
            ELSE IF fuzzy # Null THEN Pick(fuzzy, Undefined, "prefix")
            ELSE Pick(title, Undefined, "fallback")]

pickOfCall(id, harmonizedCode, title, key) ==
  pickOfType(id, harmonizedCode, title, getCorrectHSAndDescription(id.type),
             HS_DESCRIPTION_RULES(key, title), pickByPrefix(key, title))

\* pickCustomsDescription as a call on the expression objects
pickCall(regexes, harmonizedCode, titleOrDesc) ==
  pickOfCall(identifyCall(regexes, OrEmpty(titleOrDesc)), harmonizedCode, OrEmpty(titleOrDesc),
             normHS(fixMalformedHS(harmonizedCode)))

(***************************************************************************)
(* JavaScript numbers.  A Number that is not negative is held as the       *)
(* natural number d * 2^60, written as the sequence of its digits in base  *)
(* 2^15, least significant digit first and without leading zero digits     *)
(* (<<>> is 0, <<0, 0, 0, 0, 1>> is 1).  Every result of an operation is   *)
(* the IEEE 754 double nearest to the exact result, ties to the even       *)
(* mantissa of 53 bits; the values the program computes (0 and values from *)
(* 2^-7 up) are whole multiples of 2^-60.                                  *)
(***************************************************************************)
LimbBits == 3 * 5
LimbBase == 2 ^ LimbBits
FracLimbs == 2 * 2
FracBits == FracLimbs * LimbBits
MantissaBits == 53

RECURSIVE BigNorm(_)
BigNorm(a) ==
  IF Len(a) > 0 /\ a[Len(a)] = 0 THEN BigNorm(SubSeq(a, 1, Len(a) - 1)) ELSE a

\* the natural number n < 2^30 as a big number
BigOf(n) == BigNorm(<<n % LimbBase, n \div LimbBase>>)

\* a big number of at most two digits as a natural number
NatOf(a) == (IF Len(a) >= 1 THEN a[1] ELSE 0) + (IF Len(a) >= 2 THEN a[2] * LimbBase ELSE 0)

RECURSIVE BigAddFrom(_, _, _, _)
BigAddFrom(a, b, k, carry) ==
  IF k > Len(a) /\ k > Len(b)
  THEN (IF carry = 0 THEN <<>> ELSE <<carry>>)
  ELSE LET t == (IF k <= Len(a) THEN a[k] ELSE 0) + (IF k <= Len(b) THEN b[k] ELSE 0) + carry
       IN <<t % LimbBase>> \o BigAddFrom(a, b, k + 1, t \div LimbBase)
BigAdd(a, b) == BigAddFrom(a, b, 1, 0)

\* a * m for a natural number m < 2^15
RECURSIVE BigMulSmallFrom(_, _, _, _)
BigMulSmallFrom(a, m, k, carry) ==
  IF k > Len(a)
  THEN (IF carry = 0 THEN <<>> ELSE <<carry>>)
  ELSE LET t == a[k] * m + carry
       IN <<t % LimbBase>> \o BigMulSmallFrom(a, m, k + 1, t \div LimbBase)
BigMulSmall(a, m) == BigNorm(BigMulSmallFrom(a, m, 1, 0))

Zeros(n) == [k \in 1..n |-> 0]
\* a * 2^(15 n)
BigShiftLimbs(a, n) == IF Len(a) = 0 THEN a ELSE Zeros(n) \o a

RECURSIVE BigMulFrom(_, _, _)
BigMulFrom(a, b, k) ==
  IF k > Len(b) THEN <<>>
  ELSE BigAdd(BigShiftLimbs(BigMulSmall(a, b[k]), k - 1), BigMulFrom(a, b, k + 1))
BigMul(a, b) == BigMulFrom(a, b, 1)

\* the quotient and the remainder of a by a natural number m, 0 < m < 2^15
RECURSIVE BigDivSmallFrom(_, _, _, _)
BigDivSmallFrom(a, m, k, rem) ==
  IF k = 0 THEN [q |-> <<>>, r |-> rem]
  ELSE LET t == rem * LimbBase + a[k]
           rest == BigDivSmallFrom(a, m, k - 1, t % m)
       IN [q |-> Append(rest.q, t \div m), r |-> rest.r]
BigDivSmall(a, m) ==
  LET d == BigDivSmallFrom(a, m, Len(a), 0)
  IN [q |-> BigNorm(d.q), r |-> d.r]

RECURSIVE BigLessFrom(_, _, _)
BigLessFrom(a, b, k) ==
  IF k = 0 THEN FALSE
  ELSE IF a[k] # b[k] THEN a[k] < b[k]
  ELSE BigLessFrom(a, b, k - 1)
BigLess(a, b) ==
  IF Len(a) # Len(b) THEN Len(a) < Len(b) ELSE BigLessFrom(a, b, Len(a))

\* the number of bits of a natural number below 2^15, and of a big number
RECURSIVE BitsOf(_)
BitsOf(n) == IF n = 0 THEN 0 ELSE 1 + BitsOf(n \div 2)
BitLength(a) == IF Len(a) = 0 THEN 0 ELSE LimbBits * (Len(a) - 1) + BitsOf(a[Len(a)])

\* floor(a / 2^s) and a * 2^s
BigShr(a, s) ==
  IF s \div LimbBits >= Len(a) THEN <<>>
  ELSE BigDivSmall(SubSeq(a, (s \div LimbBits) + 1, Len(a)), 2 ^ (s % LimbBits)).q
BigShl(a, s) == BigShiftLimbs(BigMulSmall(a, 2 ^ (s % LimbBits)), s \div LimbBits)

\* the exact value n + (a fraction, when sticky) rounded to 53 significant
\* bits, ties to even; s is the number of bits dropped
RoundDropped(n, sticky, s, kept) ==
  LET roundBit == Len(kept) > 0 /\ kept[1] % 2 = 1
      below == sticky \/ BigShl(kept, s - 1) # n
      q == BigShr(kept, 1)
      odd == Len(q) > 0 /\ q[1] % 2 = 1
  IN BigShl(IF roundBit /\ (below \/ odd) THEN BigAdd(q, <<1>>) ELSE q, s)

RoundMantissa(n, sticky) ==
  IF BitLength(n) <= MantissaBits THEN n
  ELSE RoundDropped(n, sticky, BitLength(n) - MantissaBits,
                    BigShr(n, BitLength(n) - MantissaBits - 1))

\* the Number of the natural number n < 2^15
DblOf(n) == BigShl(BigOf(n), FracBits)
DblZero == <<>>
DblOne == DblOf(1)

\* a / b for natural numbers a < 2^15 and 0 < b < 2^15
DblQuotient(d) == BigShr(RoundMantissa(d.q, d.r # 0), FracBits)
DblDiv(a, b) == DblQuotient(BigDivSmall(BigShl(BigOf(a), 2 * FracBits), b))

\* x * y, x + y, x < y, x >= y, Math.min(x, y)
DblMul(x, y) == BigShr(RoundMantissa(BigMul(x, y), FALSE), FracBits)
DblAdd(x, y) == RoundMantissa(BigAdd(x, y), FALSE)
DblLess(x, y) == BigLess(x, y)
DblGeq(x, y) == ~BigLess(x, y)
DblMin(x, y) == IF BigLess(y, x) THEN y ELSE x

\* Number(x.toFixed(2)) in hundredths: the integer n nearest to 100 x, the
\* larger one of two
DblHundredths(x) == NatOf(BigShr(BigAdd(BigMulSmall(x, 100), BigShl(<<1>>, FracBits - 1)), FracBits))

(***************************************************************************)
(* utils/fuzzy-matching.js                                                 *)
(***************************************************************************)
Range(f) == {f[k] : k \in DOMAIN f}

\* [a-z0-9\s-] and [a-z0-9\s]
NormKept == LowerSet \cup DigitSet \cup WhiteSpace \cup {"-"}
NormalizeKept == LowerSet \cup DigitSet \cup WhiteSpace

\* .replace(/&/g, ' and ').replace(/[^a-z0-9\s-]/g, ' ') on a lower-case string
RECURSIVE ReplaceNonAlnum(_)
ReplaceNonAlnum(s) ==
  IF s = "" THEN ""
  ELSE LET c == Head(s)
           r == IF c = "&" THEN " and "
                ELSE IF c \in NormKept THEN c
                ELSE " "
       IN r \o ReplaceNonAlnum(Tail(s))

\* .replace(/\s+/g, ' ')
RECURSIVE CollapseSpaces(_)
CollapseSpaces(s) ==
  IF s = "" THEN ""
  ELSE IF IsSpace(Head(s)) THEN " " \o CollapseSpaces(trimStart(s))
  ELSE Head(s) \o CollapseSpaces(Tail(s))

_norm(s) == trim(CollapseSpaces(ReplaceNonAlnum(toLowerCase(OrEmpty(s)))))

_normalizeToken(tok) ==
  IF tok = "" \/ tok = Null \/ tok = Undefined THEN ""
  ELSE IF tok \in {"tab", "tabs", "sticker", "stickers", "tabsticker", "tabstickers",
                   "tab-sticker", "tab-stickers", "tab sticker", "tab stickers"}
       THEN "sticker"
  ELSE IF tok \in {"wildflower", "wildflowers"} THEN "wildflower"
  ELSE IF tok \in {"botanical", "botanicals"} THEN "botanical"
  ELSE tok

\* s.split(' ')
RECURSIVE split(_)
split(s) ==
  IF \E i \in 1..Len(s) : SubSeq(s, i, i) = " "
  THEN LET i == CHOOSE k \in 1..Len(s) :
                  SubSeq(s, k, k) = " " /\ \A j \in 1..(k - 1) : SubSeq(s, j, j) # " "
       IN <<SubSeq(s, 1, i - 1)>> \o split(SubSeq(s, i + 1, Len(s)))
  ELSE <<s>>

\* the set of the tokens of a name (every user of _tokens builds a Set of them)
normalizeTokens(parts) == {_normalizeToken(parts[k]) : k \in 1..Len(parts)} \ {""}

_tokens(name) == normalizeTokens(split(_norm(name)))

distinctive == {"woodlands", "enchanted", "forest", "botanical", "sticker", "monthly", "tabs"}

Max(a, b) == IF a >= b THEN a ELSE b
Min(a, b) == IF a <= b THEN a ELSE b

\* Exact fractions [num, den]
Frac(n, d) == [num |-> n, den |-> d]
FracLess(a, b) == a.num * b.den < b.num * a.den
FracGeq(a, b) == a.num * b.den >= b.num * a.den
FracEq(a, b) == a.num * b.den = b.num * a.den

\* the literals 0.7, 0.25 and 0.05
COVERAGE_WEIGHT == DblDiv(7, 10)
JACCARD_WEIGHT == DblDiv(25, 100)
BONUS_STEP == DblDiv(5, 100)

\* bonus after n of the distinctive words have added 0.05 each
RECURSIVE bonusOf(_)
bonusOf(n) == IF n = 0 THEN DblZero ELSE DblAdd(bonusOf(n - 1), BONUS_STEP)

\* 0.7 * coverage + 0.25 * jaccard + bonus
weightedSum(coverage, jaccard, bonus) ==
  DblAdd(DblAdd(DblMul(COVERAGE_WEIGHT, coverage), DblMul(JACCARD_WEIGHT, jaccard)), bonus)

Scored(score, coverage, jaccard) ==
  [score |-> score, coverage |-> coverage, jaccard |-> jaccard]

\* the result from the sizes of the intersection, of tq (at least 1) and of
\* the union (at least 1) and the number of shared distinctive words
\* a score without Math.min(1, ...)
scoreOfSizes_unclamped(inter, q, u, bonus) ==
  Scored(weightedSum(DblDiv(inter, q), DblDiv(inter, u), bonusOf(bonus)),
         DblDiv(inter, q), DblDiv(inter, u))

scoreOfSizes(inter, q, u, bonus) ==
  Scored(DblMin(DblOne, weightedSum(DblDiv(inter, q), DblDiv(inter, u), bonusOf(bonus))),
         DblDiv(inter, q), DblDiv(inter, u))

\* the sequence <<F(k), ..., F(n)>>
RECURSIVE TupleOf(_, _, _)
TupleOf(F(_), k, n) == IF k > n THEN <<>> ELSE <<F(k)>> \o TupleOf(F, k + 1, n)

\* The results of scoreOfSizes, computed once: SCORES[inter + 1][q][u][bonus + 1]
\* for names of up to MaxTokens tokens (inter <= q <= u <= 2 * MaxTokens and
\* bonus <= inter; no other sizes occur)
MaxTokens == 5
SCORES ==
  TupleOf(LAMBDA i1 :
    TupleOf(LAMBDA q :
      TupleOf(LAMBDA u :
        TupleOf(LAMBDA b1 :
                  IF i1 - 1 <= q /\ q <= u /\ b1 <= i1
                  THEN scoreOfSizes(i1 - 1, q, u, b1 - 1)
                  ELSE Scored(DblZero, DblZero, DblZero),
                1, Cardinality(distinctive) + 1),
        1, 2 * MaxTokens),
      1, MaxTokens),
    1, MaxTokens + 1)

scoreOfTokens(tq, tc) ==
  SCORES[Cardinality(tq \cap tc) + 1][Max(1, Cardinality(tq))][Max(1, Cardinality(tq \cup tc))]
        [Cardinality(distinctive \cap tq \cap tc) + 1]

_scoreNameMatch(queryName, candidateName) ==
  scoreOfTokens(_tokens(queryName), _tokens(candidateName))

(***************************************************************************)
(* Scorer calls: two names are drawn, _scoreNameMatch is applied to them.  *)
(***************************************************************************)
ScorerNames ==
  {"", "  ", "Wildflower Stickers", "Wildflower Sticker Sheet",
   "Enchanted Forest Botanical Stickers", "Monthly Tabs", "A5 Dotted Notebook",
   "Notebook (bound journal)", "Woodlands & Forest", "Gel Pen",
   "Gel Pen Black", "Gel Pen Blue Ink", "Woodlands Enchanted Owl Fox",
   "Woodlands Enchanted Owl Fox Set", Null}

InitScorer ==
  /\ pc = "score"
  /\ inp \in [queryName : ScorerNames, candidateName : ScorerNames]
  /\ out = Scored(DblZero, DblZero, DblZero)
  /\ runs = 0

Score ==
  /\ pc = "score"
  /\ out' = _scoreNameMatch(inp.queryName, inp.candidateName)
  /\ pc' = "scored"
  /\ UNCHANGED <<inp, runs>>

NextScorer == Score

SpecScorer == InitScorer /\ [][NextScorer]_vars

(***************************************************************************)
(* Classifier calls: a title and a stored code are drawn, the classifier   *)
(* is applied to them.                                                     *)
(***************************************************************************)
ScenarioATitle == "2026 Daily Planner ~ Hardcover"
ScenarioACode == "4820.10.2099"

Titles ==
  {ScenarioATitle, "A5 Dotted Notebook", "B5 Lined Notebook", "Weekly Inserts B5 Notebook Stickers",
   "Planner Inserts", "Wildflower Sheet", "Gel Pen", "Elastic band", "Mystery Box", "",
   "Sticky Notes", "Desk Notepad", "MT Washi", "Silver Bracelet", "Paper clips",
   "Washi Tape", "Pocket", "Heart Charm", "Pencil Case"}

Codes ==
  {"", ScenarioACode, "4820.10.2010", "48201020", "20481020", "8201020",
   "4911.99.8000", "4911000000", "9999.99.9999", "4820.10.2020", "7113115000",
   "9608600000", "4820.10.2060"}

ClassifierInputs == [title : Titles, code : Codes]

InitClassifier ==
  /\ pc = "classify"
  /\ inp \in ClassifierInputs
  /\ out = Pick(Undefined, Undefined, Undefined)
  /\ runs = 0

Classify ==
  /\ pc = "classify"
  /\ out' = pickCustomsDescription(inp.code, inp.title)
  /\ pc' = "classified"
  /\ UNCHANGED <<inp, runs>>

NextClassifier == Classify

SpecClassifier == InitClassifier /\ [][NextClassifier]_vars


(***************************************************************************)
(* routes/products.js: syncCustomsSkus.  Item and line indices are the     *)
(* 0-based indices of the source; NoIndex and NoConfidence stand for an    *)
(* undefined itemIndex and confidence.  A confidence is in hundredths.     *)
(***************************************************************************)
NoIndex == -1
NoConfidence == -1

Item(sku, name, productId, orderItemId, itemId) ==
  [sku |-> sku, name |-> name, productId |-> productId,
   orderItemId |-> orderItemId, itemId |-> itemId]

CustomsLine(sku, description, productId, orderItemId) ==
  [sku |-> sku, description |-> description, productId |-> productId,
   orderItemId |-> orderItemId]

Order(items, customsItems) == [items |-> items, customsItems |-> customsItems]

\* items.map((it, idx) => ({...}))
inormOf(items) ==
  [k \in 1..Len(items) |->
     LET it == items[k]
     IN [idx |-> k - 1,
         sku |-> trim(IF Truthy(it.sku) THEN it.sku ELSE ""),
         name |-> IF Truthy(it.name) THEN it.name ELSE "",
         normName |-> _norm(IF Truthy(it.name) THEN it.name ELSE ""),
         productId |-> Nullish(it.productId, Null),
         orderItemId |-> Nullish(it.orderItemId, Nullish(it.itemId, Null))]]

\* new Map(inorm.filter(x => x[field]).map(x => [x[field], x])).get(key):
\* the position in inorm of the last entry with that key, 0 when there is none
MapGet(inorm, field, key) ==
  LET S == {k \in 1..Len(inorm) : Truthy(inorm[k][field]) /\ inorm[k][field] = key}
  IN IF S = {} THEN 0 ELSE CHOOSE k \in S : \A j \in S : j <= k

\* the literal 0.45
FUZZY_THRESHOLD == DblDiv(45, 100)

\* the fuzzy loop: best is the first candidate with the highest score among all
\* of inorm (cand is its position in inorm, 0 when inorm is empty)
bestOfScores(score) ==
  LET top == {k \in 1..Len(score) : \A j \in 1..Len(score) : ~DblLess(score[k], score[j])}
      first == CHOOSE k \in top : \A j \in top : k <= j
  IN IF Len(score) = 0 THEN [cand |-> 0, score |-> DblZero]
     ELSE [cand |-> first, score |-> score[first]]

BestCandidate(q, inorm) ==
  bestOfScores([k \in 1..Len(inorm) |-> _scoreNameMatch(q, inorm[k].name).score])

\* Number(score.toFixed(2)), in hundredths
toFixed2(f) == DblHundredths(f)

\* inorm.find(x => x.normName === qNorm && !usedIdx.has(x.idx)): its position in
\* inorm, 0 when there is none
ExactName(description, inorm, usedIdx) ==
  LET S == {k \in 1..Len(inorm) :
              inorm[k].normName = _norm(description) /\ inorm[k].idx \notin usedIdx}
  IN IF S = {} THEN 0 ELSE CHOOSE k \in S : \A j \in S : k <= j

\* confidence is that of a fuzzy choice, in hundredths
Choice(chosen, source, confidence) ==
  [chosen |-> chosen, source |-> source, confidence |-> confidence]

\* tiers 3 to 5 with the position tried before the names
chooseAmong_positionFirst(exact, best, cidx, inorm, nCustoms, usedIdx) ==
  IF Len(inorm) = nCustoms /\ cidx < Len(inorm) /\ cidx \notin usedIdx
  THEN Choice(cidx + 1, "position", 0)
  ELSE IF exact # 0 THEN Choice(exact, "name-exact", 0)
  ELSE IF /\ best.cand # 0
          /\ inorm[best.cand].idx \notin usedIdx
          /\ DblGeq(best.score, FUZZY_THRESHOLD)
  THEN Choice(best.cand, "name-fuzzy", toFixed2(best.score))
  ELSE Choice(0, "missing", 0)

\* the tiers 3 to 5 of a line without sku that no identifier has paired
chooseAmong(exact, best, cidx, inorm, nCustoms, usedIdx) ==
  IF exact # 0 THEN Choice(exact, "name-exact", 0)
  ELSE IF /\ best.cand # 0
          /\ inorm[best.cand].idx \notin usedIdx
          /\ DblGeq(best.score, FUZZY_THRESHOLD)
  THEN Choice(best.cand, "name-fuzzy", toFixed2(best.score))
  ELSE IF Len(inorm) = nCustoms /\ cidx < Len(inorm) /\ cidx \notin usedIdx
  THEN Choice(cidx + 1, "position", 0)
  ELSE Choice(0, "missing", 0)

chooseByName(description, cidx, inorm, nCustoms, usedIdx) ==
  chooseAmong(ExactName(description, inorm, usedIdx), BestCandidate(description, inorm),
              cidx, inorm, nCustoms, usedIdx)

\* the tiers of a line: the position in inorm of the chosen item (0 for none) and
\* the source of the choice
chooseItem(ci, before, description, cidx, inorm, nCustoms, usedIdx) ==
  LET byOrderItemId == IF Truthy(ci.orderItemId)
                       THEN MapGet(inorm, "orderItemId", ci.orderItemId) ELSE 0
      byProductId == IF Truthy(ci.productId)
                     THEN MapGet(inorm, "productId", ci.productId) ELSE 0
  IN IF before # "" THEN Choice(0, "kept", 0)
     ELSE IF byOrderItemId # 0 THEN Choice(byOrderItemId, "orderItemId", 0)
     ELSE IF byProductId # 0 THEN Choice(byProductId, "productId", 0)
     ELSE chooseByName(description, cidx, inorm, nCustoms, usedIdx)

\* the patched line: out = { ...ci } with sku, productId and orderItemId filled
patchedLine(ci, after, item) ==
  [ci EXCEPT
     !.sku = IF after # "" THEN after ELSE ci.sku,
     !.productId = IF ~Truthy(ci.productId) /\ Truthy(item.productId)
                   THEN item.productId ELSE ci.productId,
     !.orderItemId = IF ~Truthy(ci.orderItemId) /\ Truthy(item.orderItemId)
                     THEN item.orderItemId ELSE ci.orderItemId]

\* the plan entry of a line
planEntry(cidx, description, before, after, c, item) ==
  [index |-> cidx,
   description |-> description,
   before |-> before,
   after |-> after,
   status |-> IF after # "" THEN (IF before # "" THEN "kept" ELSE "filled") ELSE "missing",
   source |-> c.source,
   matchedName |-> IF (c.source = "name-fuzzy" \/ (before = "" /\ item.sku # ""))
                      /\ item.name # ""
                   THEN item.name ELSE Undefined,
   confidence |-> IF c.source = "name-fuzzy" THEN c.confidence ELSE NoConfidence,
   itemIndex |-> IF c.chosen # 0 THEN item.idx ELSE NoIndex]

\* chosen?.x of no item
NoItem ==
  [idx |-> NoIndex, sku |-> "", name |-> "", normName |-> "", productId |-> Null,
   orderItemId |-> Null]

\* the result of the callback for the choice c
lineResult(ci, cidx, before, description, c, item) ==
  LET after == IF before = "" /\ item.sku # "" THEN item.sku ELSE before
  IN [line |-> patchedLine(ci, after, item),
      entry |-> planEntry(cidx, description, before, after, c, item)]

lineChosen(ci, cidx, before, description, c, inorm) ==
  lineResult(ci, cidx, before, description, c,
             IF c.chosen # 0 THEN inorm[c.chosen] ELSE NoItem)

lineOf(ci, cidx, before, description, inorm, nCustoms, usedIdx) ==
  lineChosen(ci, cidx, before, description,
             chooseItem(ci, before, description, cidx, inorm, nCustoms, usedIdx), inorm)

\* one call of the customs.map callback: the plan entry and the patched line
syncLine(ci, cidx, inorm, nCustoms, usedIdx) ==
  lineOf(ci, cidx, trim(IF Truthy(ci.sku) THEN ci.sku ELSE ""),
         IF Truthy(ci.description) THEN ci.description ELSE "", inorm, nCustoms, usedIdx)

\* usedIdx, plan and patched lines after the callback has returned r
afterLine(acc, r) ==
  [usedIdx |-> IF r.entry.itemIndex # NoIndex
               THEN acc.usedIdx \cup {r.entry.itemIndex} ELSE acc.usedIdx,
   plan |-> Append(acc.plan, r.entry),
   customs |-> Append(acc.customs, r.line)]

\* customs.map(...) from line k on; acc holds usedIdx, the plan and the patched lines
RECURSIVE syncLines(_, _, _, _)
syncLines(customs, k, inorm, acc) ==
  IF k > Len(customs) THEN acc
  ELSE syncLines(customs, k + 1, inorm,
                 afterLine(acc, syncLine(customs[k], k - 1, inorm, Len(customs), acc.usedIdx)))

syncResult(order, r) == [patched |-> Order(order.items, r.customs), customsSkuPlan |-> r.plan]

syncCustomsSkus(order) ==
  IF Len(order.customsItems) = 0
  THEN [patched |-> order, customsSkuPlan |-> <<>>]
  ELSE syncResult(order, syncLines(order.customsItems, 1, inormOf(order.items),
                                   [usedIdx |-> {}, plan |-> <<>>, customs |-> <<>>]))

(***************************************************************************)
(* Matcher calls: an order is drawn, syncCustomsSkus is applied to it.     *)
(* The function has no throw statement: threw is FALSE in every result.    *)
(***************************************************************************)
MaxItems == 2
MaxCustoms == 2

\* Scenario B: a line and an item without identifiers
ScenarioBLine == CustomsLine("", "Notebook (bound journal)", Null, Null)
ScenarioBItem == Item("", "A5 Dotted Notebook", Null, Null, Null)

ItemPool ==
  {Item("WF-STK", "Wildflower Stickers", "p1", "o1", Null),
   Item("WF-SHT", "Wildflower Sticker Sheet", "p2", Null, "o2"),
   ScenarioBItem,
   Item("NB-A5", "A5 Dotted Notebook", "p1", "o3", Null),
   Item("PEN", "Gel Pen", Null, Null, Null)}

CustomsPool ==
  {CustomsLine("", "Wildflower Stickers", Null, Null),
   CustomsLine("", "Wildflower Stickers Set", Null, Null),
   CustomsLine("", "Paper sticker", Null, "o1"),
   CustomsLine("", "Notebook (bound journal)", "p1", Null),
   CustomsLine("KEEP", "Gel ink pen", Null, Null),
   ScenarioBLine}

SeqsUpTo(S, n) == UNION {[1..k -> S] : k \in 0..n}

MatcherOrders ==
  {Order(its, cis) : its \in SeqsUpTo(ItemPool, MaxItems), cis \in SeqsUpTo(CustomsPool, MaxCustoms)}

NoResult == [patched |-> Order(<<>>, <<>>), customsSkuPlan |-> <<>>]

InitMatcher ==
  /\ pc = "match"
  /\ inp \in MatcherOrders
  /\ out = [result |-> NoResult, threw |-> FALSE]
  /\ runs = 0

Match ==
  /\ pc = "match"
  /\ out' = [result |-> syncCustomsSkus(inp), threw |-> FALSE]
  /\ pc' = "matched"
  /\ UNCHANGED <<inp, runs>>

NextMatcher == Match

SpecMatcher == InitMatcher /\ [][NextMatcher]_vars

(***************************************************************************)
(* order-customs-updater.js: OrderCustomsUpdater.  Prices and values are   *)
(* whole cents, so toFixed(2) leaves a product of them unchanged.          *)
(***************************************************************************)
APPEND_SKU_TO_DESC == TRUE

Customs(hsCode, description, country) ==
  [harmonizedTariffCode |-> hsCode, description |-> description, countryOfOrigin |-> country]

CATEGORY_KEYS ==
  <<"planners", "a5_notebooks", "b5_notebooks", "tn_notebooks", "planner_inserts",
    "stickers", "washi_tape", "planner_charms", "planner_elastic", "notepad",
    "sticky_notepad">>

\* CATEGORY_TO_CUSTOMS[key] through customsFromDict; Null when there is no entry,
\* and the fields a built-in function has not for an inherited key
CATEGORY_TO_CUSTOMS(key) ==
  CASE key = "planners"        -> Customs("4820.10.2010", "Planner agenda (bound diary)", "CA")
    [] key = "a5_notebooks"    -> Customs("4820.10.2060", "Notebook (bound journal)", "CA")
    [] key = "b5_notebooks"    -> Customs("4820.10.2030", "Notebook (sewn journal, B5 size)", "CA")
    [] key = "tn_notebooks"    -> Customs("4820.10.2060", "Notebook (bound journal)", "CA")
    [] key = "planner_inserts" -> Customs("4820.90.0000", "Planner inserts (loose refills)", "CA")
    [] key = "stickers"        -> Customs("4911.99.8000", "Paper sticker", "CA")
    [] key = "washi_tape"      -> Customs("4811.41.2100", "Decorative paper tape for journaling", "JP")
    [] key = "planner_charms"  -> Customs("7117.90.9000", "Imitation jewelry charm", "CN")
    [] key = "planner_elastic" -> Customs("6307.90.9800", "Elastic for notebook", "CN")
    [] key = "notepad"         -> Customs("4820.10.2020", "Notepad", "CA")
    [] key = "sticky_notepad"  -> Customs("4820.10.2020", "Sticky notepad", "USA")
    [] key \in ObjectPrototypeKeys -> Customs(Undefined, Undefined, Undefined)
    [] OTHER                   -> Customs(Null, Null, Null)

CATEGORY_SYNONYMS(n) ==
  CASE n \in {"2025 planners", "2026 planners hardcover", "2026 planners cloth flex",
              "2026 planners paper flex", "undated planner", "undated planners"} -> "planners"
    [] n = "a5 notebooks" -> "a5_notebooks"
    [] n = "b5 notebooks" -> "b5_notebooks"
    [] n = "tn notebooks" -> "tn_notebooks"
    [] n = "planner inserts" -> "planner_inserts"
    [] n = "stickers" -> "stickers"
    [] n = "accessories washi tape" -> "washi_tape"
    [] n = "planner charms" -> "planner_charms"
    [] n = "planner elastic" -> "planner_elastic"
    [] n = "notepads" -> "notepad"
    [] n = "sticky notes" -> "sticky_notepad"
    [] n \in ObjectPrototypeKeys -> Inherited(n)
    [] OTHER -> Undefined

\* a pattern of NAME_PATTERNS: the expression and the length of its source text
Pattern(re, len) == [re |-> re, len |-> len]
NoteOrJournal == Alt(<< <<Lit("notebook")>>, <<Lit("journal")>> >>)
PlannerTail == <<Dots, B, Lit("planner"), Opt("s"), B>>

NAME_PATTERNS(cat) ==
  CASE cat = "planners" ->
         << Pattern(<<B, Lit("20"), Alt(<< <<Lit("25")>>, <<Lit("26")>> >>), B>> \o PlannerTail, 30),
            Pattern(<<B, Lit("undated"), B>> \o PlannerTail, 28),
            Pattern(<<B, Alt(<< <<Lit("daily")>>, <<Lit("weekly")>>, <<Lit("monthly")>> >>), B>>
                      \o PlannerTail, 43),
            Pattern(<<B, Lit("planner"), Opt("s"), B>>, 15) >>
    [] cat = "a5_notebooks" ->
         << Pattern(<<B, Lit("a5"), B, Dots, B, NoteOrJournal, B>>, 30),
            Pattern(<<B, NoteOrJournal, B, Dots, B, Lit("a5"), B>>, 30) >>
    [] cat = "b5_notebooks" ->
         << Pattern(<<B, Lit("b5"), B, Dots, B, NoteOrJournal, B>>, 30),
            Pattern(<<B, NoteOrJournal, B, Dots, B, Lit("b5"), B>>, 30) >>
    [] cat = "tn_notebooks" ->
         << Pattern(<<B, Lit("tn"), B, Dots, B, NoteOrJournal, B>>, 30),
            Pattern(<<B, Lit("travel"), Opt("l"), Lit("er"), Opt("'"), Opt("s"), B, Dots,
                      B, NoteOrJournal, B>>, 42) >>
    [] cat = "planner_inserts" ->
         << Pattern(Word(<<"insert", "inserts", "refill", "refills", "loose", "looseleaf">>), 51),
            Pattern(<<Alt(<< <<B, Lit("disc"), Ws0, Lit("bound"), B>>,
                             <<B, Lit("discbound"), B>> >>)>>, 30) >>
    [] cat = "stickers" ->
         << Pattern(Word(<<"sticker", "stickers">>), 22),
            Pattern(Word(<<"tab", "tabs">>), 14),
            Pattern(<<B, Lit("monthly"), Ws1, Lit("tabs"), B>>, 18),
            Pattern(<<B, Lit("highlight"), Opt("s"), B>>, 17) >>
    [] cat = "washi_tape" ->
         << Pattern(Word(<<"washi">>), 9), Pattern(Word(<<"mt">>), 6) >>
    [] cat = "planner_charms" ->
         << Pattern(<<B, Lit("charm"), Opt("s"), B>>, 13) >>
    [] cat = "planner_elastic" ->
         << Pattern(Word(<<"elastic">>), 11),
            Pattern(<<B, Lit("clip"), Ws0, Lit("band"), B>>, 15) >>
    [] cat = "notepad" ->
         << Pattern(Word(<<"notepad">>), 11),
            Pattern(<<B, Lit("memo"), Ws0, Lit("pad"), B>>, 14) >>
    [] cat = "sticky_notepad" ->
         << Pattern(<<B, Lit("sticky"), Ws0, Lit("note"), Opt("s"), B>>, 21),
            Pattern(<<B, Lit("post"), Opt("-"), Lit("it"), B>>, 12),
            Pattern(Word(<<"stickies">>), 12) >>

\* .replace(/[^a-z0-9\s]/g, ' ') on a lower-case string
RECURSIVE ReplaceNonAlnumHyphen(_)
ReplaceNonAlnumHyphen(s) ==
  IF s = "" THEN ""
  ELSE LET c == Head(s)
       IN (IF c \in NormalizeKept THEN c ELSE " ")
            \o ReplaceNonAlnumHyphen(Tail(s))

normalize(s) == trim(CollapseSpaces(ReplaceNonAlnumHyphen(toLowerCase(OrEmpty(s)))))

STOP_WORDS == {"and", "or", "the", "of", "for", "with", "a", "an", "to", "&"}

\* the set of the tokens of s (overlapScore builds a Set of them)
keptTokens(parts) == ({parts[k] : k \in 1..Len(parts)} \ {""}) \ STOP_WORDS

tokens(s) == keptTokens(split(normalize(s)))

\* the score of two token sets
overlapOf(A, BB) ==
  IF A = {} \/ BB = {} THEN Frac(0, 1)
  ELSE Frac(Cardinality(A \cap BB),
            Cardinality(A) + Cardinality(BB) - Cardinality(A \cap BB))

overlapScore(a, b) == overlapOf(tokens(a), tokens(b))

\* scorePatternMatch in tenths: base 10 and lenBoost min(source.length / 10, 10);
\* low is the name in lower case (the patterns carry the i flag) and bounds its
\* word boundaries.  The scores are added and compared in tenths: for every set
\* of patterns of NAME_PATTERNS that can match one name the sums of the doubles
\* 10 + source.length / 10 order as the sums of the tenths do
scorePatternMatch(low, bounds, pattern) ==
  IF ~TestFrom(pattern.re, low, bounds) THEN 0 ELSE 100 + Min(pattern.len, 100)

\* CATEGORY_SYNONYMS[n] || n
synonymOr(n, synonym) == IF synonym # Undefined THEN synonym ELSE n

normalizeCategory(cat) == synonymOr(normalize(cat), CATEGORY_SYNONYMS(normalize(cat)))

getCustomsByCategory(rawCategory) ==
  IF ~Truthy(rawCategory) THEN Customs(Null, Null, Null)
  ELSE CATEGORY_TO_CUSTOMS(normalizeCategory(rawCategory))

RECURSIVE SumScores(_, _, _, _)
SumScores(low, bounds, patterns, k) ==
  IF k > Len(patterns) THEN 0
  ELSE scorePatternMatch(low, bounds, patterns[k]) + SumScores(low, bounds, patterns, k + 1)

CategoryScore(low, bounds, cat) == SumScores(low, bounds, NAME_PATTERNS(cat), 1)

\* the loop over NAME_PATTERNS from category k on: best is the first category
\* with the highest positive total, Null while no pattern has matched
RECURSIVE BestCategory(_, _, _, _, _)
bestAfter(low, bounds, k, best, top, sc) ==
  IF sc > top THEN BestCategory(low, bounds, k + 1, CATEGORY_KEYS[k], sc)
  ELSE BestCategory(low, bounds, k + 1, best, top)

BestCategory(low, bounds, k, best, top) ==
  IF k > Len(CATEGORY_KEYS) THEN best
  ELSE bestAfter(low, bounds, k, best, top, CategoryScore(low, bounds, CATEGORY_KEYS[k]))

customsOfBest(best) ==
  IF best = Null THEN Customs(Null, Null, Null) ELSE CATEGORY_TO_CUSTOMS(best)

customsOfLower(low) == customsOfBest(BestCategory(low, WordBounds(low), 1, Null, 0))

getCustomsByName(name) ==
  IF ~Truthy(name) THEN Customs(Null, Null, Null) ELSE customsOfLower(toLowerCase(name))

\* a Customs record with description Null stands for null
\* this.getCustomsByCategory(category) || this.getCustomsByName(name)
customsOr(byCategory, name) ==
  IF byCategory.description # Null THEN byCategory ELSE getCustomsByName(name)

getCustomsData(item) == customsOr(getCustomsByCategory(item.category), item.name)

DESC_MAX == 100

formatDesc(base, sku) ==
  IF ~APPEND_SKU_TO_DESC \/ ~Truthy(sku) THEN base
  ELSE LET o == base \o " ~ SKU " \o sku
       IN IF Len(o) > DESC_MAX THEN SubSeq(o, 1, DESC_MAX) ELSE o

OVERLAP_THRESHOLD == Frac(34, 100)

\* the first index of S counted from 0
FirstIndex(S) == (CHOOSE k \in S : \A j \in S : k <= j) - 1

\* the line of the best overlap among the free ones, if it reaches the threshold
bestOverlap(free, score) ==
  LET top == {k \in free : /\ score[k].num > 0
                           /\ \A j \in free : ~FracLess(score[k], score[j])}
  IN IF top # {} /\ FracGeq(score[FirstIndex(top) + 1], OVERLAP_THRESHOLD)
     THEN FirstIndex(top) ELSE -1

lineIndexOf(targetDesc, exact, free, score) ==
  IF Truthy(targetDesc) /\ exact # {} THEN FirstIndex(exact) ELSE bestOverlap(free, score)

exactLines(free, target, existing) ==
  {k \in free : normalize(existing[k].description) = target}

\* this.overlapScore(item.name || '', existing[i].description || '') of the lines
\* from k on; A holds the tokens of the item's name
RECURSIVE overlapScores(_, _, _)
overlapScores(A, existing, k) ==
  IF k > Len(existing) THEN <<>>
  ELSE <<overlapOf(A, tokens(existing[k].description))>> \o overlapScores(A, existing, k + 1)

lineIndexAmong(item, targetDesc, existing, free) ==
  lineIndexOf(targetDesc, exactLines(free, normalize(targetDesc), existing), free,
              overlapScores(tokens(item.name), existing, 1))

\* the 0-based index of the line to update, -1 for none
findExistingLineIndex(item, targetDesc, existing, used) ==
  lineIndexAmong(item, targetDesc, existing, {k \in 1..Len(existing) : (k - 1) \notin used})

OrderItem(name, category, sku, quantity, unitPrice) ==
  [name |-> name, category |-> category, sku |-> sku, quantity |-> quantity,
   unitPrice |-> unitPrice]

Line(customsItemId, description, quantity, value, hsCode, country) ==
  [customsItemId |-> customsItemId, description |-> description, quantity |-> quantity,
   value |-> value, harmonizedTariffCode |-> hsCode, countryOfOrigin |-> country]

\* x || y for numbers (0 and undefined are falsy)
OrNum(x, y) == IF x # 0 THEN x ELSE y

\* a line built without the identifier of the line it replaces
newLineOf_noId(item, match, targetDesc, merged, idx) ==
  Line(Undefined,
       targetDesc,
       IF idx >= 0 THEN OrNum(merged[idx + 1].quantity, OrNum(item.quantity, 1))
       ELSE OrNum(item.quantity, 1),
       OrNum(item.unitPrice, IF idx >= 0 THEN merged[idx + 1].value ELSE 0)
         * OrNum(item.quantity, 1),
       match.harmonizedTariffCode,
       match.countryOfOrigin)

\* the line built for an item: idx is the index of the line it replaces, -1 when
\* it is a new line
newLineOf(item, match, targetDesc, merged, idx) ==
  Line(IF idx >= 0 /\ Truthy(merged[idx + 1].customsItemId)
       THEN merged[idx + 1].customsItemId ELSE Undefined,
       targetDesc,
       IF idx >= 0 THEN OrNum(merged[idx + 1].quantity, OrNum(item.quantity, 1))
       ELSE OrNum(item.quantity, 1),
       OrNum(item.unitPrice, IF idx >= 0 THEN merged[idx + 1].value ELSE 0)
         * OrNum(item.quantity, 1),
       match.harmonizedTariffCode,
       match.countryOfOrigin)

\* prevent exact dupes: merged.findIndex(...) finds a line
isDup(merged, newLine, newNorm) ==
  \E k \in 1..Len(merged) :
     /\ normalize(merged[k].description) = newNorm
     /\ OrEmpty(merged[k].harmonizedTariffCode) = OrEmpty(newLine.harmonizedTariffCode)
     /\ OrEmpty(merged[k].countryOfOrigin) = OrEmpty(newLine.countryOfOrigin)
     /\ merged[k].value = newLine.value
     /\ merged[k].quantity = newLine.quantity

\* what one iteration of the loop did: whether getCustomsData classified the
\* item, the idx and the newLine of the iteration, whether newLine was pushed,
\* and merged as the iteration found it
Step(classified, idx, appended, line, before) ==
  [classified |-> classified, idx |-> idx, appended |-> appended, line |-> line,
   before |-> before]

\* a loop body that pushes the line of a matched item instead of replacing
placeLine_pushMatched(acc, idx, newLine) ==
  IF idx >= 0 THEN [merged |-> Append(acc.merged, newLine),
                    used |-> acc.used \cup {idx},
                    steps |-> Append(acc.steps, Step(TRUE, idx, FALSE, newLine, acc.merged))]
  ELSE IF isDup(acc.merged, newLine, normalize(newLine.description))
  THEN [acc EXCEPT !.steps = Append(@, Step(TRUE, idx, FALSE, newLine, acc.merged))]
  ELSE [merged |-> Append(acc.merged, newLine), used |-> acc.used,
        steps |-> Append(acc.steps, Step(TRUE, idx, TRUE, newLine, acc.merged))]

\* a loop body that pushes every line that replaces none
placeLine_alwaysPush(acc, idx, newLine) ==
  IF idx >= 0 THEN [merged |-> [acc.merged EXCEPT ![idx + 1] = newLine],
                    used |-> acc.used \cup {idx},
                    steps |-> Append(acc.steps, Step(TRUE, idx, FALSE, newLine, acc.merged))]
  ELSE [merged |-> Append(acc.merged, newLine), used |-> acc.used,
        steps |-> Append(acc.steps, Step(TRUE, idx, TRUE, newLine, acc.merged))]

placeLine(acc, idx, newLine) ==
  IF idx >= 0 THEN [merged |-> [acc.merged EXCEPT ![idx + 1] = newLine],
                    used |-> acc.used \cup {idx},
                    steps |-> Append(acc.steps, Step(TRUE, idx, FALSE, newLine, acc.merged))]
  ELSE IF isDup(acc.merged, newLine, normalize(newLine.description))
  THEN [acc EXCEPT !.steps = Append(@, Step(TRUE, idx, FALSE, newLine, acc.merged))]
  ELSE [merged |-> Append(acc.merged, newLine), used |-> acc.used,
        steps |-> Append(acc.steps, Step(TRUE, idx, TRUE, newLine, acc.merged))]

mergeAt(item, match, targetDesc, acc, idx) ==
  placeLine(acc, idx, newLineOf(item, match, targetDesc, acc.merged, idx))

mergeWithDesc(item, match, targetDesc, acc) ==
  mergeAt(item, match, targetDesc, acc,
          findExistingLineIndex(item, targetDesc, acc.merged, acc.used))

\* if (!match) continue
mergeMatch(item, match, acc) ==
  IF match.description = Null
  THEN [acc EXCEPT !.steps = Append(@, Step(FALSE, -1, FALSE, match, acc.merged))]
  ELSE mergeWithDesc(item, match, formatDesc(match.description, item.sku), acc)

\* one iteration of the loop over order.items; acc holds merged and used, and
\* the steps of the iterations so far
mergeItem(item, acc) == mergeMatch(item, getCustomsData(item), acc)

RECURSIVE mergeItems(_, _, _)
mergeItems(items, k, acc) ==
  IF k > Len(items) THEN acc ELSE mergeItems(items, k + 1, mergeItem(items[k], acc))

\* the safety check; threw: it aborted the merge (no list is returned then)
checkedMerge(existing, acc) ==
  IF Len(acc.merged) < Len(existing)
  THEN [threw |-> TRUE, merged |-> <<>>, steps |-> acc.steps]
  ELSE [threw |-> FALSE, merged |-> acc.merged, steps |-> acc.steps]

\* const used = new Set(); const merged = existing.map(ci => ({ ...ci }))
startOf(existing) == [merged |-> existing, used |-> {}, steps |-> <<>>]

\* the merge of a fresh list: the existing lines are dropped and the safety
\* check is missing
mergeCustomsItems_rebuild(order) ==
  [threw |-> FALSE,
   merged |-> mergeItems(order.items, 1, startOf(<<>>)).merged,
   steps |-> mergeItems(order.items, 1, startOf(<<>>)).steps]

mergeCustomsItems(order) ==
  checkedMerge(order.customsItems, mergeItems(order.items, 1, startOf(order.customsItems)))

(***************************************************************************)
(* Merge calls: an order is drawn and mergeCustomsItems is called on it;   *)
(* a further call is made on the same order carrying the lines the last    *)
(* call returned.  The calls leave the order they are given as it is       *)
(* (existing.map(ci => ({ ...ci }))); fetching the order and sending the   *)
(* merged lines (updateSingleOrder, updateOrders, upsertOrder) are no part *)
(* of these calls.                                                         *)
(***************************************************************************)
MaxRuns == 2

MergeItemPool ==
  {OrderItem("2026 Daily Planner ~ Hardcover", "", "PLN-1", 2, 0),
   OrderItem("Weekly Planner", "", "", 1, 500),
   OrderItem("Wildflower Stickers", "Stickers", "", 3, 250),
   OrderItem("Mystery Box", "", "BOX", 1, 900),
   OrderItem("Desk Notepad", "Notepads", "", 0, 0)}

MergeLinePool ==
  {Line("c1", "Daily planner", 1, 700, "4820.10.2099", "CA"),
   Line(Undefined, "Planner agenda (bound diary)", 1, 500, "4820.10.2010", "CA"),
   Line("c3", "Gift wrap", 1, 100, "", ""),
   Line("c4", "Paper sticker", 0, 0, "4911.99.8000", "CA")}

MergeOrders ==
  {Order(its, cis) : its \in SeqsUpTo(MergeItemPool, MaxItems),
                     cis \in SeqsUpTo(MergeLinePool, MaxCustoms)}

InitMerge ==
  /\ pc = "merge"
  /\ inp \in MergeOrders
  /\ out = [existing |-> <<>>, merged |-> <<>>, threw |-> FALSE, steps |-> <<>>]
  /\ runs = 0

\* what a run leaves: the lines it started from and the outcome of the merge
mergeRun(existing, r) ==
  [existing |-> existing, merged |-> r.merged, threw |-> r.threw, steps |-> r.steps]

\* mergeCustomsItems(order)
Merge ==
  /\ pc = "merge"
  /\ out' = mergeRun(inp.customsItems, mergeCustomsItems(inp))
  /\ runs' = runs + 1
  /\ pc' = "merged"
  /\ UNCHANGED inp

\* mergeCustomsItems({ ...order, customsItems: merged }) with the lines of the
\* last call
MergeAgain ==
  /\ pc = "merged"
  /\ runs < MaxRuns
  /\ ~out.threw
  /\ Len(out.merged) > 0
  /\ out' = mergeRun(out.merged, mergeCustomsItems([inp EXCEPT !.customsItems = out.merged]))
  /\ runs' = runs + 1
  /\ UNCHANGED <<pc, inp>>

NextMerge == Merge \/ MergeAgain

SpecMerge == InitMerge /\ [][NextMerge]_vars

(***************************************************************************)
(* Scenario D: one call of mergeCustomsItems on an order with three        *)
(* customs lines and four items that getCustomsData classifies.            *)
(***************************************************************************)
ClassifiedItemPool == {i \in MergeItemPool : getCustomsData(i).description # Null}

\* three different lines of the pool, in any order
ThreeLines ==
  {cis \in [1..3 -> MergeLinePool] : cis[1] # cis[2] /\ cis[1] # cis[3] /\ cis[2] # cis[3]}

ScenarioDOrders ==
  {Order(its, cis) : its \in [1..4 -> ClassifiedItemPool], cis \in ThreeLines}

InitScenarioD ==
  /\ pc = "scenarioD"
  /\ inp \in ScenarioDOrders
  /\ out = [existing |-> <<>>, merged |-> <<>>, threw |-> FALSE, steps |-> <<>>]
  /\ runs = 0

MergeOnce ==
  /\ pc = "scenarioD"
  /\ out' = mergeRun(inp.customsItems, mergeCustomsItems(inp))
  /\ runs' = runs + 1
  /\ pc' = "merged"
  /\ UNCHANGED inp

NextScenarioD == MergeOnce

SpecScenarioD == InitScenarioD /\ [][NextScenarioD]_vars

(***************************************************************************)
(* routes/products.js: buildCustomsPatch.  customsItems are the lines of   *)
(* internationalOptions; isUS is the result of isUS(order).                *)
(***************************************************************************)
PatchLine(description, harmonizedTariffCode, harmonizedCode, hsCode, tariffCode) ==
  [description |-> description, harmonizedTariffCode |-> harmonizedTariffCode,
   harmonizedCode |-> harmonizedCode, hsCode |-> hsCode, tariffCode |-> tariffCode]

PatchOrder(us, itemNames, customsItems) ==
  [isUS |-> us, items |-> itemNames, customsItems |-> customsItems]

getHS(ci) ==
  Nullish(ci.harmonizedTariffCode,
    Nullish(ci.harmonizedCode, Nullish(ci.hsCode, Nullish(ci.tariffCode, ""))))

\* itemTitles.find(t => t) || ''
FirstTitle(names) ==
  LET S == {k \in 1..Len(names) : Truthy(names[k])}
  IN IF S = {} THEN "" ELSE names[CHOOSE k \in S : \A j \in S : k <= j]

\* the code stored on the line: the override when the pick carries one
newHSOf(pick, hsRaw) == IF Truthy(pick.overrideHS) THEN pick.overrideHS ELSE hsRaw

\* the analysis entry and the patched line, given what changed
patchEntry(ci, idx, hsRaw, cur, pick, descChanged, hsChanged) ==
  [analysis |-> [index |-> idx, hs |-> hsRaw, hsNormalized |-> normHS(hsRaw),
                 hsNew |-> IF hsChanged THEN newHSOf(pick, hsRaw) ELSE hsRaw,
                 from |-> cur, mapped |-> pick.desc, rule |-> pick.rule,
                 willChange |-> descChanged \/ hsChanged],
   line |-> [ci EXCEPT
               !.description = IF descChanged THEN pick.desc ELSE ci.description,
               !.harmonizedTariffCode = IF hsChanged THEN newHSOf(pick, hsRaw)
                                        ELSE ci.harmonizedTariffCode]]

patchPicked(ci, idx, hsRaw, cur, pick) ==
  patchEntry(ci, idx, hsRaw, cur, pick,
             trim(cur) # trim(pick.desc),
             Truthy(pick.overrideHS) /\ normHS(hsRaw) # normHS(pick.overrideHS))

\* bestT is the description of the line, else the first item title
patchCurrent(ci, idx, itemTitles, hsRaw, cur) ==
  patchPicked(ci, idx, hsRaw, cur,
              pickCustomsDescription(hsRaw, IF cur # "" THEN cur ELSE FirstTitle(itemTitles)))

\* the analysis entry and the patched line of one customs line
patchLine(ci, idx, itemTitles) ==
  patchCurrent(ci, idx, itemTitles, getHS(ci), OrEmpty(ci.description))

\* analysis.filter(a => a.willChange).map(...)
RECURSIVE diffOf(_, _)
diffOf(analysis, k) ==
  IF k > Len(analysis) THEN <<>>
  ELSE (IF analysis[k].willChange
        THEN << [index |-> analysis[k].index, harmonizedCode |-> analysis[k].hs,
                 harmonizedCodeNew |-> analysis[k].hsNew, from |-> analysis[k].from,
                 to |-> analysis[k].mapped] >>
        ELSE <<>>) \o diffOf(analysis, k + 1)

\* a result with canUpdate FALSE carries only the reason; its other fields are
\* filled with the empty diff and the unchanged order
refuse(order, reason) ==
  [canUpdate |-> FALSE, reason |-> reason, diff |-> <<>>, patchedOrder |-> order,
   analysis |-> <<>>, anyCustomsChange |-> FALSE]

patchResult(order, analysis, updated, diff) ==
  [canUpdate |-> TRUE, reason |-> Undefined, diff |-> diff,
   patchedOrder |-> IF Len(diff) > 0 THEN [order EXCEPT !.customsItems = updated]
                    ELSE order,
   analysis |-> analysis, anyCustomsChange |-> Len(diff) > 0]

patchAnalysed(order, analysis, updated) ==
  patchResult(order, analysis, updated, diffOf(analysis, 1))

\* r holds the analysis entry and the patched line of each customs line
patchLines(order, r) ==
  patchAnalysed(order, [k \in 1..Len(r) |-> r[k].analysis], [k \in 1..Len(r) |-> r[k].line])

buildCustomsPatch(order) ==
  IF ~order.isUS THEN refuse(order, "Order is not shipping to US.")
  ELSE IF Len(order.customsItems) = 0
  THEN refuse(order, "No customsItems on this order to edit.")
  ELSE patchLines(order, [k \in 1..Len(order.customsItems) |->
                            patchLine(order.customsItems[k], k - 1, order.items)])

(***************************************************************************)
(* Patch calls: an order is drawn and buildCustomsPatch is called on it; a *)
(* further call is made on the patched order the last call returned.  The  *)
(* calls leave the order they are given as it is; loading the order and    *)
(* sending the payload (handleOrderUpdate, the bulk-update route) are no   *)
(* part of these calls.                                                    *)
(***************************************************************************)
PatchLinePool ==
  {PatchLine("Elastic band", Undefined, Undefined, Undefined, Undefined),
   PatchLine("", "4820.10.2010", Undefined, Undefined, Undefined),
   PatchLine("Daily Planner", ScenarioACode, Undefined, Undefined, Undefined),
   PatchLine("Mystery Box", Null, "9608600000", Undefined, Undefined),
   PatchLine("Paper sticker", "4911.99.8000", Undefined, Undefined, Undefined),
   PatchLine("Gift wrap", Undefined, Undefined, "9999.99.9999", "4820.10.2060")}

PatchTitlePool == {ScenarioATitle, "Mystery Box", ""}

PatchOrders ==
  {PatchOrder(us, its, cis) : us \in BOOLEAN, its \in SeqsUpTo(PatchTitlePool, MaxItems),
                              cis \in SeqsUpTo(PatchLinePool, MaxCustoms)}

InitPatch ==
  /\ pc = "patch"
  /\ inp \in PatchOrders
  /\ out = [canUpdate |-> FALSE, reason |-> Undefined, diff |-> <<>>,
            patchedOrder |-> inp, analysis |-> <<>>, anyCustomsChange |-> FALSE]
  /\ runs = 0

\* buildCustomsPatch(order)
Patch ==
  /\ pc = "patch"
  /\ out' = buildCustomsPatch(inp)
  /\ runs' = runs + 1
  /\ pc' = "patched"
  /\ UNCHANGED inp

\* buildCustomsPatch(patchedOrder) with the patched order of the last call
PatchAgain ==
  /\ pc = "patched"
  /\ runs < MaxRuns
  /\ out.canUpdate
  /\ out' = buildCustomsPatch(out.patchedOrder)
  /\ runs' = runs + 1
  /\ UNCHANGED <<pc, inp>>

NextPatch == Patch \/ PatchAgain

SpecPatch == InitPatch /\ [][NextPatch]_vars

(***************************************************************************)
(* order-customs-updater.js: upsertOrder.  An order as fetched is posted   *)
(* back with the merged customs lines: first without an items array, then, *)
(* when that request is rejected (or when FORCE_INCLUDE_ITEMS is set),     *)
(* with the items array of buildSafeItems.  Items carry the fields the     *)
(* fingerprint reads and the name; requests is the sequence of the         *)
(* payloads posted.                                                        *)
(***************************************************************************)
UpsertItem(orderItemId, sku, name, quantity) ==
  [orderItemId |-> orderItemId, sku |-> sku, name |-> name, quantity |-> quantity]

\* String(n) for a natural number
RECURSIVE NatString(_)
NatString(n) ==
  IF n < 10 THEN CharAt(Digits, n + 1) ELSE NatString(n \div 10) \o CharAt(Digits, (n % 10) + 1)

\* typeof x === 'string'
IsString(x) == x # Null /\ x # Undefined

\* the callback of order.items.map in buildSafeItems
safeItem(it) ==
  [orderItemId |-> it.orderItemId,
   sku |-> IF IsString(it.sku) THEN it.sku ELSE Nullish(it.sku, ""),
   name |-> it.name,
   quantity |-> it.quantity]

safeItems(items) == [k \in 1..Len(items) |-> safeItem(items[k])]

\* Guard: never let a non-empty SKU go empty
skuLoss(orderItems, items) ==
  \E k \in 1..Len(orderItems) :
     /\ Truthy(orderItems[k].sku) /\ IsString(orderItems[k].sku) /\ trim(orderItems[k].sku) # ""
     /\ (~Truthy(items[k].sku) \/ trim(items[k].sku) = "")

buildSafeItems(order) ==
  [threw |-> skuLoss(order.items, safeItems(order.items)), items |-> safeItems(order.items)]

\* `${i.orderItemId}:${i.sku || ''}:${i.quantity}`
fpItem(i) == i.orderItemId \o ":" \o OrEmpty(i.sku) \o ":" \o NatString(i.quantity)

\* arr.map(...).join('|')
RECURSIVE fpFrom(_, _)
fpFrom(arr, k) ==
  IF k > Len(arr) THEN ""
  ELSE (IF k > 1 THEN "|" ELSE "") \o fpItem(arr[k]) \o fpFrom(arr, k + 1)
fp(arr) == fpFrom(arr, 1)

Payload(order, customsItems, hasItems, items) ==
  [customsItems |-> IF Len(customsItems) > 0 THEN customsItems ELSE order.customsItems,
   hasItems |-> hasItems, items |-> items]

\* this.makePartialPayload(order, customsItems, includeItems); threw:
\* buildSafeItems threw
makePartialPayload(order, customsItems, includeItems) ==
  IF includeItems
  THEN [threw |-> buildSafeItems(order).threw,
        payload |-> Payload(order, customsItems, TRUE, buildSafeItems(order).items)]
  ELSE [threw |-> FALSE, payload |-> Payload(order, customsItems, FALSE, <<>>)]

\* the request of call c that carries payload
Request(c, payload) == [call |-> c, payload |-> payload]

\* what a call has come to: at is where it stands, usedItemsArray is the
\* field of the object it returned
UpsertCall(at, usedItemsArray) == [at |-> at, usedItemsArray |-> usedItemsArray]

\* the posts sent so far, in the order they were sent, and the calls
Upserts(requests, calls) == [requests |-> requests, calls |-> calls]

\* the first post of call c: the payload without items is posted
upsertWithoutItems(c, order, customsItems, ups) ==
  Upserts(Append(ups.requests,
                 Request(c, makePartialPayload(order, customsItems, FALSE).payload)),
          [ups.calls EXCEPT ![c] = UpsertCall("post1", FALSE)])

\* the retry with items of call c: the payload is built from order.items as
\* they are now, the fingerprints are compared and the payload is posted; a
\* throw of buildSafeItems or of the fingerprint check ends the call
upsertWithItems(c, order, customsItems, ups) ==
  IF makePartialPayload(order, customsItems, TRUE).threw
     \/ fp(order.items) # fp(makePartialPayload(order, customsItems, TRUE).payload.items)
  THEN Upserts(ups.requests, [ups.calls EXCEPT ![c] = UpsertCall("threw", FALSE)])
  ELSE Upserts(Append(ups.requests,
                      Request(c, makePartialPayload(order, customsItems, TRUE).payload)),
               [ups.calls EXCEPT ![c] = UpsertCall("post2", FALSE)])

\* upsertOrder(order, customsItems) up to its first await
upsertOrder(c, order, customsItems, forceItems, ups) ==
  IF ~forceItems THEN upsertWithoutItems(c, order, customsItems, ups)
  ELSE upsertWithItems(c, order, customsItems, ups)

UpsertItemPool ==
  {UpsertItem("o1", "PLN-1", "2026 Daily Planner", 2),
   UpsertItem("o2", "", "Weekly Planner", 1),
   UpsertItem("o3", Null, "Wildflower Stickers", 3),
   UpsertItem("o4", " wf-stk ", "Wildflower Stickers", 10),
   UpsertItem("o5", Undefined, "Desk Notepad", 1)}

UpsertLines == {<<Line("c1", "Daily planner", 1, 700, "4820.10.2099", "CA")>>,
                <<Line(Undefined, "Paper sticker", 3, 750, "4911.99.8000", "CA")>>}

\* the calls of upsertOrder that can be in flight together, each on the order
\* as it was fetched
UpsertCalls == 1..MaxRuns

InitUpsert ==
  /\ pc = "upsert"
  /\ inp \in [items : SeqsUpTo(UpsertItemPool, MaxItems), customsItems : {<<>>},
               merged : UpsertLines \cup {<<>>}, forceItems : BOOLEAN]
  /\ out = Upserts(<<>>, [c \in UpsertCalls |-> UpsertCall("idle", FALSE)])
  /\ runs = 0

\* upsertOrder is called: the code up to the first await
Upsert(c) ==
  /\ out.calls[c].at = "idle"
  /\ out' = upsertOrder(c, inp, inp.merged, inp.forceItems, out)
  /\ runs' = runs + 1
  /\ UNCHANGED <<pc, inp>>

\* the post without items resolves: return { usedItemsArray: false }
FirstPostResolved(c) ==
  /\ out.calls[c].at = "post1"
  /\ out' = [out EXCEPT !.calls[c] = UpsertCall("returned", FALSE)]
  /\ UNCHANGED <<pc, inp, runs>>

\* the post without items rejects: the catch logs it and the call goes on
\* with the payload that carries the items
FirstPostRejected(c) ==
  /\ out.calls[c].at = "post1"
  /\ out' = upsertWithItems(c, inp, inp.merged, out)
  /\ UNCHANGED <<pc, inp, runs>>

\* the post with items resolves: return { usedItemsArray: true }
SecondPostResolved(c) ==
  /\ out.calls[c].at = "post2"
  /\ out' = [out EXCEPT !.calls[c] = UpsertCall("returned", TRUE)]
  /\ UNCHANGED <<pc, inp, runs>>

\* the post with items rejects: upsertOrder throws
SecondPostRejected(c) ==
  /\ out.calls[c].at = "post2"
  /\ out' = [out EXCEPT !.calls[c] = UpsertCall("threw", FALSE)]
  /\ UNCHANGED <<pc, inp, runs>>

NextUpsert ==
  \/ \E c \in UpsertCalls : Upsert(c)
  \/ \E c \in UpsertCalls : FirstPostResolved(c)
  \/ \E c \in UpsertCalls : FirstPostRejected(c)
  \/ \E c \in UpsertCalls : SecondPostResolved(c)
  \/ \E c \in UpsertCalls : SecondPostRejected(c)

SpecUpsert == InitUpsert /\ [][NextUpsert]_vars

(***************************************************************************)
(* Calls on a caller's order: the caller holds an order object and calls   *)
(* syncCustomsSkus, buildCustomsPatch or mergeCustomsItems on it.  The     *)
(* objects of the program are the cells of a heap, a sequence of cells in  *)
(* which the address of an object is its index: the cell of an object is   *)
(* the record of its fields, the cell of an array the sequence of the      *)
(* addresses of its elements, and a field that holds an object or an array *)
(* holds its address.  A function allocates the objects it creates at new  *)
(* addresses and writes to the addresses its statements write to; the      *)
(* values it writes are those of the function as defined above.  inp is    *)
(* the caller's heap and the order read from it, before and after the      *)
(* call; out is the heap the call leaves and the address it returns.       *)
(***************************************************************************)
MaxFrame == 1

\* a new object or array: it gets the next address
alloc(heap, cell) == [heap |-> Append(heap, cell), addr |-> Len(heap) + 1]

\* const out = ci: no copy, the name stands for the object itself
spreadCopy_alias(heap, addr) == [heap |-> heap, addr |-> addr]

\* { ...ci }: a new object with the fields of the object at addr
spreadCopy(heap, addr) == alloc(heap, heap[addr])

\* out.sku = ..., merged[idx] = ..., merged.push(...): the object at addr
\* holds cell afterwards
assign(heap, addr, cell) == [heap EXCEPT ![addr] = cell]

\* order.internationalOptions.customsItems, the address of the array
customsArray(heap, order) == heap[heap[order].internationalOptions].customsItems

\* the objects an array holds
objectsOf(heap, array) == [k \in 1..Len(heap[array]) |-> heap[heap[array][k]]]

\* the order at an address, read field by field
orderAt(heap, order) ==
  Order(objectsOf(heap, heap[order].items), objectsOf(heap, customsArray(heap, order)))

patchOrderAt(heap, order) ==
  PatchOrder(heap[order].isUS,
             [k \in 1..Len(heap[heap[order].items]) |-> heap[heap[heap[order].items][k]].name],
             objectsOf(heap, customsArray(heap, order)))

\* the cells of an order with the given item and line objects: the objects,
\* the items array, the customsItems array, internationalOptions; the order
\* object itself follows them
cellsOf(items, lines) ==
  items \o lines \o
  << [k \in 1..Len(items) |-> k],
     [k \in 1..Len(lines) |-> Len(items) + k],
     [customsItems |-> Len(items) + Len(lines) + 2] >>

heapOfOrder(order) ==
  cellsOf(order.items, order.customsItems) \o
  << [items |-> Len(order.items) + Len(order.customsItems) + 1,
      internationalOptions |-> Len(order.items) + Len(order.customsItems) + 3] >>

heapOfPatchOrder(order) ==
  cellsOf([k \in 1..Len(order.items) |-> [name |-> order.items[k]]], order.customsItems) \o
  << [isUS |-> order.isUS,
      items |-> Len(order.items) + Len(order.customsItems) + 1,
      internationalOptions |-> Len(order.items) + Len(order.customsItems) + 3] >>

\* existing.map(ci => ({ ...ci })): a new array of spread copies
RECURSIVE spreadEach(_, _, _, _)
spreadEach(heap, elems, k, addrs) ==
  IF k > Len(elems) THEN alloc(heap, addrs)
  ELSE spreadEach(spreadCopy(heap, elems[k]).heap, elems, k + 1,
                  Append(addrs, spreadCopy(heap, elems[k]).addr))

mapSpread(heap, array) == spreadEach(heap, heap[array], 1, <<>>)

\* customs.map(ci => { const out = { ...ci }; out.f = ...; return out }):
\* lines[k] is what out holds after the writes of the callback on line k
RECURSIVE mapOut(_, _, _, _, _)
mapOut(heap, elems, lines, k, addrs) ==
  IF k > Len(elems) THEN alloc(heap, addrs)
  ELSE mapOut(assign(spreadCopy(heap, elems[k]).heap, spreadCopy(heap, elems[k]).addr, lines[k]),
              elems, lines, k + 1, Append(addrs, spreadCopy(heap, elems[k]).addr))

\* { ...order, internationalOptions: { ...intl, customsItems: array } }
withCustoms(heap, order, array) ==
  alloc(alloc(heap, [heap[heap[order].internationalOptions] EXCEPT !.customsItems = array]).heap,
        [heap[order] EXCEPT !.internationalOptions = Len(heap) + 1])

\* syncCustomsSkus on the heap; r is its result.  Without customs lines the
\* order itself is returned as patched
syncOnHeap(heap, order, r) ==
  IF Len(heap[customsArray(heap, order)]) = 0 THEN [heap |-> heap, addr |-> order]
  ELSE withCustoms(mapOut(heap, heap[customsArray(heap, order)], r.patched.customsItems,
                          1, <<>>).heap,
                   order,
                   mapOut(heap, heap[customsArray(heap, order)], r.patched.customsItems,
                          1, <<>>).addr)

\* buildCustomsPatch on the heap; r is its result.  A refusal creates no
\* object (addr is the order then, as patchedOrder is in refuse)
patchOnHeap(heap, order, r) ==
  IF ~r.canUpdate THEN [heap |-> heap, addr |-> order]
  ELSE IF r.anyCustomsChange
  THEN withCustoms(mapOut(heap, heap[customsArray(heap, order)], r.patchedOrder.customsItems,
                          1, <<>>).heap,
                   order,
                   mapOut(heap, heap[customsArray(heap, order)], r.patchedOrder.customsItems,
                          1, <<>>).addr)
  ELSE spreadCopy(mapOut(heap, heap[customsArray(heap, order)], r.patchedOrder.customsItems,
                         1, <<>>).heap, order)

\* one iteration of the merge loop on the heap: newLine is created, then
\* merged[idx] = newLine, or merged.push(newLine), or neither
placeOnHeap(heap, merged, step) ==
  IF ~step.classified THEN heap
  ELSE IF step.idx >= 0
  THEN assign(alloc(heap, step.line).heap, merged,
              [heap[merged] EXCEPT ![step.idx + 1] = alloc(heap, step.line).addr])
  ELSE IF step.appended
  THEN assign(alloc(heap, step.line).heap, merged,
              Append(heap[merged], alloc(heap, step.line).addr))
  ELSE alloc(heap, step.line).heap

RECURSIVE mergeLoop(_, _, _, _)
mergeLoop(heap, merged, steps, k) ==
  IF k > Len(steps) THEN heap
  ELSE mergeLoop(placeOnHeap(heap, merged, steps[k]), merged, steps, k + 1)

\* mergeCustomsItems on the heap; r is its result.  existing and merged are
\* two arrays of copies; merged is returned
mergeOnHeap(heap, order, r) ==
  [heap |-> mergeLoop(mapSpread(mapSpread(heap, customsArray(heap, order)).heap,
                                mapSpread(heap, customsArray(heap, order)).addr).heap,
                      mapSpread(mapSpread(heap, customsArray(heap, order)).heap,
                                mapSpread(heap, customsArray(heap, order)).addr).addr,
                      r.steps, 1),
   addr |-> mapSpread(mapSpread(heap, customsArray(heap, order)).heap,
                      mapSpread(heap, customsArray(heap, order)).addr).addr]

\* the caller of a function: the heap, the address of its order, and the
\* order read from the heap
Holder(kind, heap, order) ==
  [kind |-> kind, heap |-> heap, root |-> Len(heap), order |-> order]

FrameInputs ==
  {Holder("sync", heapOfOrder(Order(its, cis)), Order(its, cis)) :
     its \in SeqsUpTo(ItemPool, MaxFrame), cis \in SeqsUpTo(CustomsPool, MaxFrame)} \cup
  {Holder("patch", heapOfPatchOrder(PatchOrder(us, its, cis)), PatchOrder(us, its, cis)) :
     us \in BOOLEAN, its \in SeqsUpTo(PatchTitlePool, MaxFrame),
     cis \in SeqsUpTo(PatchLinePool, MaxFrame)} \cup
  {Holder("merge", heapOfOrder(Order(its, cis)), Order(its, cis)) :
     its \in SeqsUpTo(MergeItemPool, MaxFrame), cis \in SeqsUpTo(MergeLinePool, MaxFrame)}

\* what a call leaves: its result, the heap, and the address it returned
Called(kind, result, onHeap) ==
  [kind |-> kind, result |-> result, heap |-> onHeap.heap, addr |-> onHeap.addr]

\* the caller after the call: the cells it held, and its order read again
callerAfter(caller, heap) ==
  [caller EXCEPT !.heap = SubSeq(heap, 1, Len(caller.heap)),
                 !.order = IF caller.kind = "patch" THEN patchOrderAt(heap, caller.root)
                           ELSE orderAt(heap, caller.root)]

InitFrame ==
  /\ pc = "call"
  /\ inp \in FrameInputs
  /\ out = [kind |-> "none"]
  /\ runs = 0

CallSync ==
  /\ pc = "call"
  /\ inp.kind = "sync"
  /\ out' = Called("sync", syncCustomsSkus(orderAt(inp.heap, inp.root)),
                   syncOnHeap(inp.heap, inp.root, syncCustomsSkus(orderAt(inp.heap, inp.root))))
  /\ inp' = callerAfter(inp, out'.heap)
  /\ pc' = "called"
  /\ UNCHANGED runs

CallPatch ==
  /\ pc = "call"
  /\ inp.kind = "patch"
  /\ out' = Called("patch", buildCustomsPatch(patchOrderAt(inp.heap, inp.root)),
                   patchOnHeap(inp.heap, inp.root,
                               buildCustomsPatch(patchOrderAt(inp.heap, inp.root))))
  /\ inp' = callerAfter(inp, out'.heap)
  /\ pc' = "called"
  /\ UNCHANGED runs

CallMerge ==
  /\ pc = "call"
  /\ inp.kind = "merge"
  /\ out' = Called("merge", mergeCustomsItems(orderAt(inp.heap, inp.root)),
                   mergeOnHeap(inp.heap, inp.root, mergeCustomsItems(orderAt(inp.heap, inp.root))))
  /\ inp' = callerAfter(inp, out'.heap)
  /\ pc' = "called"
  /\ UNCHANGED runs

NextFrame == CallSync \/ CallPatch \/ CallMerge

SpecFrame == InitFrame /\ [][NextFrame]_vars

(***************************************************************************)
(* sku-rules.js and sku-generator.js: SKU_RULES and SKUGenerator.  A       *)
(* dictionary is the sequence of its <<key, code>> entries in source order *)
(* (the keys are in lower case).  The letter e with a grave accent of the  *)
(* key 'riviere' is written "^"; the euro and pound signs of the currency  *)
(* classes are outside the alphabet of the model.                          *)
(***************************************************************************)
productTypes ==
  <<<<"daily planner", "DLP">>, <<"daily", "DLP">>, <<"weekly planner", "WKP">>,
    <<"weekly", "WKP">>, <<"horizontal planner", "HLP">>, <<"horizontal", "HLP">>,
    <<"insert", "INS">>, <<"inserts", "INS">>, <<"refill", "RFL">>, <<"refills", "RFL">>,
    <<"notebook", "NTB">>, <<"notebooks", "NTB">>, <<"journal", "NTB">>,
    <<"stickers", "STK">>, <<"gift card", "GFT">>>>

subtypes ==
  <<<<"blank", "BLNK">>, <<"dotted", "DOT">>, <<"dot grid", "DOT">>, <<"graph", "GRD">>,
    <<"grid", "GRD">>, <<"lined", "LIN">>, <<"weekly inserts", "WKL">>,
    <<"horizontal inserts", "HNL">>>>

collections ==
  <<<<"jewlry", "JWL">>, <<"jewellery", "JWL">>, <<"undated", "UND">>,
    <<"minimalist", "MIN">>, <<"square bullets", "SQB">>, <<"square bullet", "SQB">>,
    <<"time management", "TMG">>, <<"monthly tab", "TAB">>, <<"wellness", "WLN">>,
    <<"decorative", "DCR">>, <<"highlight", "HLT">>, <<"charm", "CHRM">>,
    <<"bundle", "BNDL">>, <<"signature planner bundle", "PLNR-BNDL">>,
    <<"clip band elastics", "CLP-ELS">>, <<"printable", "PRNT">>, <<"finance", "FIN">>>>

jewelryTypes ==
  <<<<"earring", "EAR">>, <<"earrings", "EAR">>, <<"stud", "EAR">>, <<"studs", "EAR">>,
    <<"bracelet", "BRC">>, <<"bracelets", "BRC">>, <<"pendant", "PND">>,
    <<"pendants", "PND">>, <<"necklace", "NCK">>, <<"necklaces", "NCK">>,
    <<"ring", "RNG">>, <<"rings", "RNG">>>>

materials ==
  <<<<"gold", "GLD">>, <<"14k gold", "GLD-14">>, <<"18k gold", "GLD-18">>,
    <<"gold-plated", "GLD">>, <<"silver", "SLV">>, <<"sterling silver", "SLV">>,
    <<"rose gold", "RGL">>, <<"brass", "BRS">>, <<"steel", "STL">>>>

packs ==
  <<<<"single", "SN">>, <<"one", "SN">>, <<"pair", "PR">>, <<"pairs", "PR">>>>

sizes ==
  <<<<"a5", "A5">>, <<"b5", "B5">>, <<"tn", "TN">>, <<"half letter", "HL">>,
    <<"classic", "CL">>, <<"classic hp", "CL">>, <<"discbound - half letter", "DB-HL">>,
    <<"disc-bound classic hp", "DB-CL">>>>

colors ==
  <<<<"charbon", "CHB">>, <<"witching hour", "WCH">>, <<"willow", "WIL">>,
    <<"wild orchid", "WOR">>, <<"pacific", "PAC">>, <<"juniper", "JUN">>,
    <<"deep aster", "DAH">>, <<"aster", "AST">>, <<"slate", "SLA">>, <<"moss", "MOS">>,
    <<"rivi^re", "RIV">>, <<"riviere", "RIV">>, <<"light riviere", "LRV">>,
    <<"enchanted forest", "ECF">>, <<"autumnal", "AUT">>, <<"blossomfield", "BLO">>,
    <<"fawn", "FWN">>, <<"elderberry", "ELD">>, <<"lilac", "LIL">>,
    <<"secret garden", "SCG">>, <<"rosewood", "RWO">>, <<"wisteria", "WIS">>,
    <<"marigold", "MRG">>, <<"white oak", "WOK">>, <<"oak", "OAK">>, <<"nimbus", "NIM">>,
    <<"toile de lin", "TDL">>, <<"deep forest", "DPF">>, <<"deep oak", "DPO">>,
    <<"washi", "WSH">>, <<"pink", "PNK">>, <<"pink dots", "PND">>, <<"glacial", "GLC">>,
    <<"pastel cream", "PCR">>, <<"mocha", "MOC">>, <<"evergreen", "EVG">>,
    <<"empress blue", "EMB">>, <<"aqua", "AQA">>, <<"matte white", "MWH">>,
    <<"fog", "FOG">>, <<"lichen", "LIC">>, <<"sweet almond", "SWA">>,
    <<"dahlia", "DAH">>, <<"hyacinth", "HYA">>, <<"matte purple", "MAP">>,
    <<"dusty mint", "DUM">>, <<"moonflower", "MNF">>, <<"oasis", "OAS">>,
    <<"pewter", "PEW">>, <<"heart spot", "HSP">>, <<"pink bubbles", "PKB">>,
    <<"pink star", "PKS">>, <<"gold star", "GST">>, <<"red star", "RST">>,
    <<"pink mini dots", "PMD">>, <<"red mini dots", "RMD">>, <<"pink waves", "PW">>,
    <<"teal waves", "TW">>, <<"diamond mini grid", "DMG">>,
    <<"gold square graph", "GSG">>, <<"blue square graph grid", "BSG">>,
    <<"cyan square grid", "CSG">>, <<"milk tea dots", "MTD">>,
    <<"navy mini dots", "NVM">>, <<"silver dots", "SLD">>,
    <<"navy blue stripes", "NBS">>, <<"light blue stripes", "LBS">>, <<"peony", "PNY">>,
    <<"light earth", "LTE">>, <<"meadow", "MDW">>, <<"sea to sky", "STS">>,
    <<"life in pastels", "LFP">>, <<"foxberry", "FXB">>, <<"matte black", "MTB">>,
    <<"summer solstice", "SMT">>, <<"spring neutrals", "SPN">>, <<"hydrangea", "HDR">>,
    <<"lakeside", "LKS">>, <<"poplar", "PLR">>, <<"clove", "CLV">>,
    <<"mulberry", "MLB">>, <<"lavande", "LVD">>, <<"matte gold", "MAG">>,
    <<"buttercup", "BTR">>, <<"snapdragon", "SNP">>, <<"woodlands", "WDL">>,
    <<"wild indigo", "WIN">>, <<"plum grove", "PLG">>>>

motifs ==
  <<<<"lunar", "LNR">>, <<"lumine", "LUM">>, <<"solstice", "SOL">>, <<"rabbit", "RBT">>,
    <<"heart of the forest", "HOF">>, <<"mushroom", "MSH">>, <<"hummingbird", "HUM">>,
    <<"jardin", "JAR">>, <<"floriculture", "FLC">>, <<"monarque", "MON">>,
    <<"blank", "BLNK">>, <<"heart of the forest lined notebook", "HOF">>,
    <<"heart of the forest dotted notebook", "HOF">>>>

washiType == "WAS"

\* brands.find(b => b.test.test(pt)): /mt\s*washi/i and /(^|\s)mt(\s|$)/i,
\* both with code 'MT'
brandTests ==
  << <<Lit("mt"), Ws0, Lit("washi")>>,
     <<Alt(<< <<Bos>>, <<Sp>> >>), Lit("mt"), Alt(<< <<Sp>>, <<Eos>> >>)>> >>
brandCode == "MT"

\* /\bimperfect|imperfection(s)?\b/i
imperfectRegex ==
  <<Alt(<< <<B, Lit("imperfect")>>, <<Lit("imperfection"), Opt("s"), B>> >>)>>
\* /\b(20\d{2})\b/
yearRegex == <<B, Lit("20"), Dig, Dig, B>>

\* .replace(/[^A-Z0-9\s]/g, ' ') on an upper-case string
RECURSIVE ReplaceNonUpperAlnum(_)
ReplaceNonUpperAlnum(s) ==
  IF s = "" THEN ""
  ELSE LET c == Head(s)
       IN (IF c \in UpperSet \cup DigitSet \cup WhiteSpace THEN c ELSE " ")
            \o ReplaceNonUpperAlnum(Tail(s))

\* the first element of s.split(/\s+/) for a trimmed, non-empty s
RECURSIVE firstWord(_)
firstWord(s) ==
  IF s = "" \/ IsSpace(Head(s)) THEN "" ELSE Head(s) \o firstWord(Tail(s))

\* w.slice(0, 3).padEnd(3, 'X')
pad3(w) ==
  LET h == IF Len(w) > 3 THEN SubSeq(w, 1, 3) ELSE w
  IN h \o SubSeq("XXX", 1, 3 - Len(h))

fallback3(str) ==
  LET cleaned == trim(ReplaceNonUpperAlnum(toUpperCase(OrEmpty(str))))
  IN IF cleaned = "" THEN "XXX" ELSE pad3(firstWord(cleaned))

DEFAULT_MAX == 20
IM_CODE == "IM"
\* opts.maxLength || 20
MAXOf(maxLength) == IF maxLength # 0 THEN maxLength ELSE DEFAULT_MAX

\* a || b for strings
OrStr(a, b) == IF Truthy(a) THEN a ELSE b

\* parts.filter(Boolean)
filterBoolean(parts) == SelectSeq(parts, Truthy)

\* Case-insensitive dictionary match, prefers longer keys: the keys sorted by
\* length in descending order (a stable sort), the first one that text includes
_pick(text, dict) ==
  IF ~Truthy(text) THEN ""
  ELSE LET s == toLowerCase(text)
           hits == {i \in 1..Len(dict) : includes(s, dict[i][1])}
           first == CHOOSE i \in hits : \A j \in hits :
                      \/ Len(dict[i][1]) > Len(dict[j][1])
                      \/ Len(dict[i][1]) = Len(dict[j][1]) /\ i <= j
       IN IF hits = {} THEN "" ELSE dict[first][2]

\* for (const src of sources) { const c = this._pick(src, dict); if (c) return c; }
RECURSIVE pickFirst(_, _, _)
pickFirst(sources, dict, k) ==
  IF k > Len(sources) THEN ""
  ELSE LET c == _pick(sources[k], dict)
       IN IF c # "" THEN c ELSE pickFirst(sources, dict, k + 1)

\* the start positions of the matches of re in s
Matches(re, s) == {p \in 1..(Len(s) + 1) : Ends(re, 1, s, p) # {}}
MinOf(S) == CHOOSE x \in S : \A y \in S : x <= y

_findYear(s) ==
  LET m == Matches(yearRegex, s)
  IN IF m = {} THEN "" ELSE SubSeq(s, MinOf(m) + 2, MinOf(m) + 3)

_findProductType(pt) == _pick(pt, productTypes)
_findSubtype(hay) == _pick(hay, subtypes)
_findCollection(pt) == _pick(pt, collections)
_isImperfect(pt, vt) == TestI(imperfectRegex, pt) \/ TestI(imperfectRegex, vt)

\* /^\s*[$]?\s*\d+(\.\d{2})?\s*$/
_isNumericOnly(s) ==
  Test(<<Bos, Ws0, Opt("$"), Ws0, Digs1, Alt(<< <<>>, <<Lit("."), Dig, Dig>> >>), Ws0, Eos>>,
       s)

\* /^(default( title)?|standard|regular)$/i on the trimmed string
_isGenericVariant(s) ==
  toLowerCase(trim(s)) \in {"default", "default title", "standard", "regular"}

_findColor(pt, vt, optsArr) ==
  LET c == pickFirst(filterBoolean(optsArr \o <<vt, pt>>), colors, 1)
  IN IF c # "" THEN c
     ELSE IF Truthy(vt) /\ ~_isNumericOnly(vt) /\ ~_isGenericVariant(vt) THEN fallback3(vt)
     ELSE ""

_findMotif(pt, vt) == _pick(pt \o " " \o vt, motifs)
_findJewelryType(pt) == _pick(pt, jewelryTypes)
_findMaterial(optsArr, hay) == pickFirst(optsArr \o <<hay>>, materials, 1)
_findPack(optsArr, hay) == pickFirst(optsArr \o <<hay>>, packs, 1)

\* /(^|\s)(A5|B5|TN)(\s|$)/i.exec(s): group 2 of the leftmost match, '' for none
plainSize(s) ==
  LET at == {q \in 1..(Len(s) - 1) :
               /\ toLowerCase(SubSeq(s, q, q + 1)) \in {"a5", "b5", "tn"}
               /\ (q = 1 \/ IsSpace(CharAt(s, q - 1)))
               /\ (q + 1 = Len(s) \/ IsSpace(CharAt(s, q + 2)))}
  IN IF at = {} THEN "" ELSE SubSeq(s, MinOf(at), MinOf(at) + 1)

_findSize(optsArr, pt, vt) ==
  LET s == pickFirst(optsArr \o <<vt, pt>>, sizes, 1)
  IN IF s # "" THEN s ELSE plainSize(pt \o " " \o vt)

\* parts.join(sep)
RECURSIVE join(_, _)
join(parts, sep) ==
  IF Len(parts) = 0 THEN ""
  ELSE IF Len(parts) = 1 THEN parts[1]
  ELSE parts[1] \o sep \o join(Tail(parts), sep)

\* s.split('-')
RECURSIVE splitHyphen(_)
splitHyphen(s) ==
  LET cut == {k \in 1..Len(s) : CharAt(s, k) = "-"}
  IN IF cut = {} THEN <<s>>
     ELSE <<SubSeq(s, 1, MinOf(cut) - 1)>> \o splitHyphen(SubSeq(s, MinOf(cut) + 1, Len(s)))

\* s.replace(/-/g, '')
RECURSIVE removeHyphens(_)
removeHyphens(s) ==
  IF s = "" THEN ""
  ELSE (IF Head(s) = "-" THEN "" ELSE Head(s)) \o removeHyphens(Tail(s))

\* s.slice(0, n) for n >= 0
sliceTo(s, n) == IF Len(s) <= n THEN s ELSE SubSeq(s, 1, n)

\* segments.splice(i, 1), i counted from 1
removeAt(segments, i) == SubSeq(segments, 1, i - 1) \o SubSeq(segments, i + 1, Len(segments))

\* /^(SN|PR|S\d)$/i
isPackCode(x) ==
  LET u == toUpperCase(x)
  IN u \in {"SN", "PR"} \/ (Len(u) = 2 /\ CharAt(u, 1) = "S" /\ CharAt(u, 2) \in DigitSet)

dropOne == {"LMN", "BLNK", "DOT", "LIN", "GRD"}

\* for (let i = segments.length - 1; i >= 0 && sku.length > MAX; i--) ...
RECURSIVE dropLoop(_, _, _)
dropLoop(MAX, segments, i) ==
  IF i < 1 \/ Len(join(segments, "-")) <= MAX THEN segments
  ELSE IF segments[i] \in dropOne THEN dropLoop(MAX, removeAt(segments, i), i - 1)
  ELSE dropLoop(MAX, segments, i - 1)

\* the last resort of _joinAndTrim: the segments that are left after the loop
trimDropped(MAX, dropped) ==
  IF Len(dropped) <= MAX THEN dropped ELSE sliceTo(removeHyphens(dropped), MAX)

\* a trim that compacts as soon as dropping the pack code is not enough
trimNoPack_compactFirst(MAX, hadPack, noPack) ==
  IF hadPack /\ Len(join(noPack, "-")) <= MAX THEN join(noPack, "-")
  ELSE trimDropped(MAX, join(noPack, "-"))

\* noPack: the segments without the first pack code (hadPack: there was one)
trimNoPack(MAX, hadPack, noPack) ==
  IF hadPack /\ Len(join(noPack, "-")) <= MAX THEN join(noPack, "-")
  ELSE trimDropped(MAX, join(dropLoop(MAX, noPack, Len(noPack)), "-"))

trimPack(MAX, segments, packAt) ==
  trimNoPack(MAX, packAt # {},
             IF packAt = {} THEN segments ELSE removeAt(segments, MinOf(packAt)))

trimSegments(MAX, segments) ==
  trimPack(MAX, segments, {k \in 1..Len(segments) : isPackCode(segments[k])})

trimSku(MAX, sku) == IF Len(sku) <= MAX THEN sku ELSE trimSegments(MAX, splitHyphen(sku))

_joinAndTrim(MAX, parts) == trimSku(MAX, toUpperCase(join(filterBoolean(parts), "-")))

\* a suffix appended with a hyphen whatever the length of the result
_appendSuffix_unbounded(MAX, base, suffix) == base \o "-" \o suffix

\* the template strings write a null or undefined base as its name;
\* base.replace throws on it
_appendSuffix(MAX, base, suffix) ==
  LET hy == base \o "-" \o suffix
      tight == base \o suffix
      compact == sliceTo(removeHyphens(base), Max(0, MAX - Len(suffix)))
  IN IF Len(hy) <= MAX THEN hy
     ELSE IF Len(tight) <= MAX THEN tight
     ELSE IF base \in {Null, Undefined} THEN TypeError
     ELSE toUpperCase(compact \o suffix)

\* the callers' predicate: cand => used.has(String(cand).toUpperCase()); all
\* stands for a predicate that reports every candidate as used
isUsed(used, cand) == used.all \/ toUpperCase(cand) \in used.codes

\* for (let j = 0; j < L.length; j++): the first candidate base + L[i] + L[j]
\* that is not used, Null when there is none (i and j counted from 1)
RECURSIVE suffixLoopJ(_, _, _, _, _)
suffixLoopJ(MAX, base, used, i, j) ==
  IF j > Len(UpperAlpha) THEN Null
  ELSE LET cand == _appendSuffix(MAX, base, CharAt(UpperAlpha, i) \o CharAt(UpperAlpha, j))
       IN IF ~isUsed(used, cand) THEN cand ELSE suffixLoopJ(MAX, base, used, i, j + 1)

\* for (let i = 0; i < L.length; i++) for (let j ...
RECURSIVE suffixLoopI(_, _, _, _)
suffixLoopI(MAX, base, used, i) ==
  IF i > Len(UpperAlpha) THEN Null
  ELSE LET cand == suffixLoopJ(MAX, base, used, i, 1)
       IN IF cand # Null THEN cand ELSE suffixLoopI(MAX, base, used, i + 1)

\* the suffix loops have found cand, or Null
\* a uniqueness chain without its time-derived last step
uniqueOr_noFallback(MAX, base, cand, stamp) ==
  IF cand # Null THEN cand ELSE ""

uniqueOr(MAX, base, cand, stamp) ==
  IF cand # Null THEN cand ELSE sliceTo(_appendSuffix(MAX, base, stamp), MAX)

uniqueBase(MAX, base, used, stamp) ==
  IF ~isUsed(used, base) THEN base
  ELSE uniqueOr(MAX, base, suffixLoopI(MAX, base, used, 1), stamp)

\* stamp is Date.now().toString(36).slice(-2).toUpperCase()
_uniqueify(MAX, base0, used, stamp) ==
  uniqueBase(MAX, IF ~Truthy(base0) THEN "SKU" ELSE base0, used, stamp)

\* txt.match(/([$]?\s*)(\d{1,4})(?:\.\d{2})?/): group 2, the first digits of txt
RECURSIVE digitRun(_, _)
digitRun(s, n) ==
  IF n = 0 \/ s = "" \/ Head(s) \notin DigitSet THEN ""
  ELSE Head(s) \o digitRun(Tail(s), n - 1)

grab(txt) ==
  LET at == {k \in 1..Len(txt) : CharAt(txt, k) \in DigitSet}
  IN IF at = {} THEN "" ELSE digitRun(SubSeq(txt, MinOf(at), Len(txt)), 4)

_giftAmount(pt, vt) == OrStr(grab(vt), OrStr(grab(pt), ""))

appendFallback(compact, fb) == IF fb # "" THEN Append(compact, fb) ELSE compact

\* Ensure we have at least two informative tokens
_ensureDescriptive(parts, fallbackFrom) ==
  IF Len(filterBoolean(parts)) >= 2 THEN parts
  ELSE appendFallback(filterBoolean(parts), fallback3(OrEmpty(fallbackFrom)))

\* parts.splice(2, 0, size)
insertAt2(parts, size) == SubSeq(parts, 1, 2) \o <<size>> \o SubSeq(parts, 3, Len(parts))

pushIf(parts, cond, x) == IF cond THEN Append(parts, x) ELSE parts

\* the general case: the tokens that were found, a fallback when there are
\* fewer than two
generalParts(found, fb, imperfect) ==
  pushIf(pushIf(found, Len(found) < 2 /\ fb # "", fb), imperfect, IM_CODE)

\* undated notebooks: TYPE-SUBTYPE-SIZE-COLLECTION-COLOR after the splice
undatedParts(p, size, imperfect) ==
  pushIf(IF size # "" THEN insertAt2(p, size) ELSE p, imperfect, IM_CODE)

partsOf(year, type, subtype, collection, size, color, imperfect, fb, fallbackFrom) ==
  IF year = "" /\ type = "NTB"
  THEN undatedParts(<<type, subtype, collection, color>>, size, imperfect)
  ELSE IF type \in {"INS", "RFL"}
  THEN pushIf(_ensureDescriptive(<<type, size, subtype, collection, color>>, fallbackFrom),
              imperfect, IM_CODE)
  ELSE generalParts(filterBoolean(<<year, type, subtype, collection, size, color>>),
                    fb, imperfect)

\* return base || last || fb || 'SKU'
lastResort(last, fb) == IF last # "" THEN last ELSE OrStr(fb, "SKU")

baseOrLast(MAX, base, type, collection, fb) ==
  IF base # "" THEN base
  ELSE lastResort(_joinAndTrim(MAX, <<OrStr(type, OrStr(collection, fb)), fb>>), fb)

baseOfTokens(MAX, year, type, subtype, collection, size, color, imperfect, fb, fallbackFrom) ==
  baseOrLast(MAX,
             _joinAndTrim(MAX, partsOf(year, type, subtype, collection, size, color,
                                       imperfect, fb, fallbackFrom)),
             type, collection, fb)

\* the branches of generate after the brand rule
baseOfType(MAX, pt, vt, hay, optionsArr, jType, type, color) ==
  IF jType # ""
  THEN _joinAndTrim(MAX, <<"JWL",
                           OrStr(_findMotif(pt, vt), OrStr(color, fallback3(pt))),
                           jType, _findPack(optionsArr, hay),
                           _findMaterial(optionsArr, hay)>>)
  ELSE IF type = "GFT" \/ TestI(<<Lit("gift"), Ws0, Lit("card")>>, pt)
  THEN _joinAndTrim(MAX, <<"GFT", OrStr(_giftAmount(pt, vt), fallback3(OrStr(vt, pt)))>>)
  ELSE baseOfTokens(MAX, _findYear(hay), type, _findSubtype(hay), _findCollection(pt),
                    _findSize(optionsArr, pt, vt), color, _isImperfect(pt, vt),
                    fallback3(OrStr(vt, pt)), OrStr(vt, pt))

baseOfColor(MAX, pt, vt, hay, optionsArr, color) ==
  IF \E k \in 1..Len(brandTests) : TestI(brandTests[k], pt)
  THEN _joinAndTrim(MAX, <<brandCode, washiType, OrStr(color, fallback3(OrStr(vt, pt)))>>)
  ELSE baseOfType(MAX, pt, vt, hay, optionsArr, _findJewelryType(pt),
                  _findProductType(pt), color)

baseOfTitles(MAX, pt, vt, optionsArr) ==
  baseOfColor(MAX, pt, vt, trim(pt \o " " \o vt), optionsArr,
              _findColor(pt, vt, optionsArr))

\* the base code of generate, before _uniqueify
generateBase(MAX, productTitle, variantTitle, optionsArr) ==
  baseOfTitles(MAX, OrStr(productTitle, ""), OrStr(variantTitle, ""), optionsArr)

generate(MAX, productTitle, variantTitle, used, optionsArr, stamp) ==
  _uniqueify(MAX, generateBase(MAX, productTitle, variantTitle, optionsArr), used, stamp)

(***************************************************************************)
(* Generator runs: a variant (product title, variant title, options), a    *)
(* maximum length and a used-code predicate are drawn; each run is one     *)
(* iteration of the loop of generateSkusForMissing: it generates a code    *)
(* for the variant and adds it, in upper case, to the used codes; prev is  *)
(* the code the iteration before it stored for its variant.                *)
(***************************************************************************)
SynthTitles ==
  {"", "MT Washi Tape Set", "Lunar Stud Earrings", "Gift Card", "A5 Dotted Notebook", "Notebook",
   "2026 Daily Planner ~ Hardcover", "Weekly Inserts", "Clip Band Elastics",
   "Signature Planner Bundle Imperfect"}

SynthVariants == {"", "Default Title", "Wisteria", "Midnight Stars", "$25.00", "B5 / Lined"}

SynthOptions == {<<>>, <<"Wisteria">>, <<"Pair", "14k Gold">>}

MaxLengths == {2, 10, 20}

Stamps == {"0A", "ZZ"}

Used(all, codes) == [all |-> all, codes |-> codes]

\* a catalogue that holds a code and every two-letter variation of it
SaturatedBase == "GFT-25"
SaturatedCodes ==
  {SaturatedBase} \cup
  {SaturatedBase \o "-" \o CharAt(UpperAlpha, i) \o CharAt(UpperAlpha, j) :
     i \in 1..Len(UpperAlpha), j \in 1..Len(UpperAlpha)}

UsedPool == {Used(FALSE, {}), Used(FALSE, SaturatedCodes), Used(TRUE, {})}

SynthInputs ==
  [productTitle : SynthTitles, variantTitle : SynthVariants, options : SynthOptions,
   maxLength : MaxLengths, used : UsedPool]

InitSynth ==
  /\ pc = "generate"
  /\ inp \in SynthInputs
  /\ out = [sku |-> "", MAX |-> 0, used |-> Used(FALSE, {}), prev |-> ""]
  /\ runs = 0

Generate ==
  /\ pc \in {"generate", "generated"}
  /\ runs < MaxRuns
  /\ \E stamp \in Stamps :
       LET MAX == MAXOf(inp.maxLength)
           suggestion == generate(MAX, inp.productTitle, inp.variantTitle, inp.used,
                                  inp.options, stamp)
       IN /\ out' = [sku |-> suggestion, MAX |-> MAX, used |-> inp.used, prev |-> out.sku]
          /\ inp' = IF suggestion = "" THEN inp
                    ELSE [inp EXCEPT !.used.codes = @ \cup {toUpperCase(suggestion)}]
  /\ runs' = runs + 1
  /\ pc' = "generated"

NextSynth == Generate

SpecSynth == InitSynth /\ [][NextSynth]_vars

(***************************************************************************)
(* Classifier properties                                                   *)
(***************************************************************************)
TitleType == identifyProductFromTitle(inp.title)
CleanedKey == normHS(fixMalformedHS(inp.code))
\* the code prefixes of pickByPrefix
HS_PREFIXES ==
  {"48201020", "4911", "960810", "960860", "8305", "630790", "481141", "711311", "7117"}
\* neither the title nor the cleaned code resolves
NothingResolves ==
  /\ TitleType = Null
  /\ CleanedKey \notin HS_KEYS
  /\ \A p \in HS_PREFIXES : ~startsWith(CleanedKey, p)

\* C6: when the title matches a rule the classifier returns that rule's code
\* and description whatever the stored code is; the Scenario A title
\* classifies as planner even with the stale code 4820.10.2099.
C6_TitleOverridesCode ==
  (pc = "classified" /\ TitleType # Null) =>
    /\ out.overrideHS = getCorrectHSAndDescription(TitleType).hs
    /\ out.desc = getCorrectHSAndDescription(TitleType).desc
    /\ out.rule = "title-" \o TitleType
    /\ (inp.title = ScenarioATitle =>
          out = Pick("Planner agenda (bound diary)", "4820102010", "title-planner"))

C6_Witness ==
  /\ pc = "classified"
  /\ inp = [title |-> ScenarioATitle, code |-> ScenarioACode]
  /\ out.rule = "title-planner"

\* C7: when no title rule matches and the cleaned code is in neither the exact
\* table nor the prefix table, the classifier returns the fallback result
\* (rule "fallback", no code, the title as description), and no resolved
\* classification carries that rule.
C7_UnknownIsExplicit ==
  pc = "classified" =>
    /\ (NothingResolves => out = Pick(inp.title, Undefined, "fallback"))
    /\ (out.rule = "fallback" => NothingResolves)

C7_Witness ==
  /\ pc = "classified"
  /\ inp = [title |-> "Mystery Box", code |-> "9999.99.9999"]
  /\ out.rule = "fallback"

\* the code was changed by the structural repair
Repaired == fixMalformedHS(inp.code) # DigitsOnly(inp.code)

\* C8: a repaired code that is not an entry of the exact code table is left
\* unresolved (no product description is assigned by default).
C8_RepairedCodeLeftUnresolved ==
  (pc = "classified" /\ TitleType = Null /\ Repaired /\ CleanedKey \notin HS_KEYS) =>
    out.rule = "fallback"

\* what the two code tables hold for the cleaned code of the call
ExactEntry == HS_DESCRIPTION_RULES(CleanedKey, inp.title)
PrefixEntry == pickByPrefix(CleanedKey, inp.title)

\* C21: when no title rule matches, the cleaned code is resolved by the exact
\* code table if it has an entry for it, and by the prefix table only when
\* the exact table has none.
C21_ExactBeforePrefix ==
  (pc = "classified" /\ TitleType = Null) =>
    /\ (ExactEntry # Undefined => out = Pick(ExactEntry, Undefined, "exact"))
    /\ (out.rule = "prefix" => (ExactEntry = Undefined /\ out.desc = PrefixEntry))

\* a code that both tables hold, under a title no rule matches
C21_Witness ==
  /\ pc = "classified"
  /\ TitleType = Null
  /\ ExactEntry # Undefined
  /\ PrefixEntry # Null
  /\ out.rule = "exact"

(***************************************************************************)
(* Repeated classification: an input is classified, then other inputs are  *)
(* classified, then the first input is classified again, all on the same   *)
(* expression objects.                                                     *)
(***************************************************************************)
RepeatTitles ==
  {ScenarioATitle, "Weekly Inserts B5 Notebook Stickers", "Planner Inserts",
   "B5 Lined Notebook", "Sticky Notes", "Desk Notepad", "Gel Pen", "Mystery Box", ""}

RepeatCodes == {"", ScenarioACode, "4820.10.2010", "20481020"}

OtherInputs ==
  {[title |-> "Wildflower Sheet", code |-> ""],
   [title |-> "Monthly Planner Inserts ~ Notebook size", code |-> "4911.99.8000"],
   [title |-> "Pencil Case", code |-> "9999.99.9999"]}

InitRepeat ==
  /\ pc = "first"
  /\ inp \in [title : RepeatTitles, code : RepeatCodes]
  /\ out = [first |-> Pick(Undefined, Undefined, Undefined),
            last |-> Pick(Undefined, Undefined, Undefined),
            other |-> Pick(Undefined, Undefined, Undefined),
            regexes |-> FreshRegexes]
  /\ runs = 0

ClassifyFirst ==
  /\ pc = "first"
  /\ out' = [out EXCEPT !.first = pickCall(out.regexes, inp.code, inp.title).pick,
                        !.regexes = pickCall(out.regexes, inp.code, inp.title).regexes]
  /\ pc' = "between"
  /\ UNCHANGED <<inp, runs>>

ClassifyOther ==
  /\ pc = "between"
  /\ runs < MaxRuns
  /\ \E o \in OtherInputs :
       out' = [out EXCEPT !.other = pickCall(out.regexes, o.code, o.title).pick,
                          !.regexes = pickCall(out.regexes, o.code, o.title).regexes]
  /\ runs' = runs + 1
  /\ UNCHANGED <<pc, inp>>

ClassifyAgain ==
  /\ pc = "between"
  /\ out' = [out EXCEPT !.last = pickCall(out.regexes, inp.code, inp.title).pick,
                        !.regexes = pickCall(out.regexes, inp.code, inp.title).regexes]
  /\ pc' = "again"
  /\ UNCHANGED <<inp, runs>>

NextRepeat == ClassifyFirst \/ ClassifyOther \/ ClassifyAgain

SpecRepeat == InitRepeat /\ [][NextRepeat]_vars

\* C25: the insert rule is checked first: a title that holds an insert keyword
\* is classified as planner inserts (4820.90.0000), whatever notebook,
\* planner, sticker or size words it holds besides.
C25_InsertFirst ==
  (pc = "classified" /\ TestI(INSERT_KEYWORDS, inp.title)) =>
    /\ out.rule = "title-insert"
    /\ out.overrideHS = "4820900000"
    /\ out.desc = "Planner inserts (loose refills)"

\* C24: classification is deterministic: the second of two calls with the same
\* title and code returns what the first returned, whatever was classified
\* in between; and it is what pickCustomsDescription gives for them.
C24_Deterministic ==
  pc = "again" =>
    /\ out.last = out.first
    /\ out.last = pickCustomsDescription(inp.code, inp.title)

\* a title classified by a shared keyword expression, twice, with two other
\* classifications in between
C24_Witness ==
  /\ pc = "again"
  /\ runs = 2
  /\ out.first.rule = "title-insert"
  /\ out.last.rule = "title-insert"
  /\ out.other.rule \in {"title-sticker", "fallback"}

(***************************************************************************)
(* Scorer properties                                                       *)
(***************************************************************************)
QueryTokens == _tokens(inp.queryName)
CandidateTokens == _tokens(inp.candidateName)
SharedTokens == QueryTokens \cap CandidateTokens
\* 100 * q * u times the sum 0.7 * coverage + 0.25 * overlap + 0.05 per
\* shared distinctive word, for q query tokens and u tokens in the union
WeightedSum(q, u) ==
  70 * Cardinality(SharedTokens) * u + 25 * Cardinality(SharedTokens) * q
    + 5 * Cardinality(SharedTokens \cap distinctive) * q * u
SumOfCall ==
  Frac(WeightedSum(Max(1, Cardinality(QueryTokens)),
                   Max(1, Cardinality(QueryTokens \cup CandidateTokens))),
       100 * Max(1, Cardinality(QueryTokens)) *
         Max(1, Cardinality(QueryTokens \cup CandidateTokens)))

\* the Number x is the fraction f up to the rounding of a few operations
\* (2^-50)
RoundingSlack == BigShl(<<1>>, 2 * 5)
NearFrac(x, f) ==
  /\ ~BigLess(BigAdd(BigShl(BigOf(f.num), FracBits), BigMulSmall(RoundingSlack, f.den)),
              BigMulSmall(x, f.den))
  /\ ~BigLess(BigAdd(BigMulSmall(x, f.den), BigMulSmall(RoundingSlack, f.den)),
              BigShl(BigOf(f.num), FracBits))

\* C23: for every pair of names the score is within [0,1]: it is the weighted
\* sum 0.7 * coverage + 0.25 * overlap plus the bonus (as the Number the
\* program computes, equal to the exact sum up to rounding), clamped to at
\* most 1, never negative, and 0 when a name is empty.
C23_ScoreInUnitInterval ==
  pc = "scored" =>
    /\ DblGeq(out.score, DblZero)
    /\ DblGeq(DblOne, out.score)
    /\ NearFrac(out.score, IF FracLess(Frac(1, 1), SumOfCall) THEN Frac(1, 1) ELSE SumOfCall)
    /\ (FracLess(Frac(1, 1), SumOfCall) => out.score = DblOne)
    /\ ((QueryTokens = {} \/ CandidateTokens = {}) => out.score = DblZero)

\* a pair whose weighted sum exceeds 1 and is clamped
C23_Witness ==
  /\ pc = "scored"
  /\ FracLess(Frac(1, 1), SumOfCall)
  /\ out.score = DblOne

(***************************************************************************)
(* Matcher properties                                                      *)
(***************************************************************************)
Plan == out.result.customsSkuPlan
Paired(k) == Plan[k].itemIndex # NoIndex

\* C1: the pairing is injective in both directions: no two pairs of one
\* matcher output share a declaration-line index or an item index.
C1_PairingInjective ==
  pc = "matched" =>
    \A a, b \in DOMAIN Plan :
      (a # b /\ Paired(a) /\ Paired(b)) =>
        /\ Plan[a].index # Plan[b].index
        /\ Plan[a].itemIndex # Plan[b].itemIndex

\* C9: when a line selects an item that an earlier line of the same call has
\* already taken, the matcher throws and returns no pairing result.
C9_SecondAssignmentAborts ==
  pc = "matched" =>
    \A b \in DOMAIN Plan :
      (Paired(b) /\ \E a \in 1..(b - 1) : Plan[a].itemIndex = Plan[b].itemIndex) =>
        (out.threw /\ out.result = NoResult)

\* the lines that no identifier and no exact name paired
ReachedFuzzy(k) == Plan[k].source \in {"name-fuzzy", "position", "missing"}
\* the items no earlier line has taken
Remaining(k) ==
  {i \in 0..(Len(inp.items) - 1) : \A j \in 1..(k - 1) : Plan[j].itemIndex # i}
LineScore(k, i) == _scoreNameMatch(Plan[k].description, inp.items[i + 1].name).score
\* the highest-scoring remaining items
TopRemaining(k) ==
  {i \in Remaining(k) : \A j \in Remaining(k) : ~DblLess(LineScore(k, i), LineScore(k, j))}
LowestOf(S) == CHOOSE i \in S : \A j \in S : i <= j

\* C10: in the fuzzy tier a line is paired with the highest-scoring item among
\* the items not yet consumed when that score is at least 0.45 (ties to the
\* lowest item index), and is left unpaired by the tier only when no remaining
\* item reaches 0.45.
C10_FuzzyPicksBestRemaining ==
  pc = "matched" =>
    \A k \in DOMAIN Plan :
      ReachedFuzzy(k) =>
        IF /\ Remaining(k) # {}
           /\ DblGeq(LineScore(k, LowestOf(TopRemaining(k))), FUZZY_THRESHOLD)
        THEN /\ Plan[k].source = "name-fuzzy"
             /\ Plan[k].itemIndex = LowestOf(TopRemaining(k))
        ELSE Plan[k].source # "name-fuzzy"

\* the items the lines before line k have consumed
Consumed(k) == {Plan[j].itemIndex : j \in 1..(k - 1)} \ {NoIndex}
\* what each tier finds for the line ci with description d, given the items as
\* the matcher sees them and the items consumed so far
KeptSku(ci) == trim(IF Truthy(ci.sku) THEN ci.sku ELSE "") # ""
OrderItemIdHit(ci, items) ==
  Truthy(ci.orderItemId) /\ MapGet(items, "orderItemId", ci.orderItemId) # 0
ProductIdHit(ci, items) ==
  Truthy(ci.productId) /\ MapGet(items, "productId", ci.productId) # 0
ExactHit(d, items, consumed) == ExactName(d, items, consumed) # 0
FuzzyHitOf(best, items, consumed) ==
  /\ best.cand # 0
  /\ items[best.cand].idx \notin consumed
  /\ DblGeq(best.score, FUZZY_THRESHOLD)
FuzzyHit(d, items, consumed) == FuzzyHitOf(BestCandidate(d, items), items, consumed)
PositionHit(k, consumed) ==
  Len(inp.items) = Len(inp.customsItems) /\ (k - 1) \notin consumed
\* the first tier, in the order of the cascade, that pairs the line
FirstTier(kept, orderItemId, productId, exact, fuzzy, position) ==
  IF kept THEN "kept"
  ELSE IF orderItemId THEN "orderItemId"
  ELSE IF productId THEN "productId"
  ELSE IF exact THEN "name-exact"
  ELSE IF fuzzy THEN "name-fuzzy"
  ELSE IF position THEN "position"
  ELSE "missing"
TierOfLine(k, ci, d, items, consumed) ==
  FirstTier(KeptSku(ci), OrderItemIdHit(ci, items), ProductIdHit(ci, items),
            ExactHit(d, items, consumed), FuzzyHit(d, items, consumed),
            PositionHit(k, consumed))
TiersOf(plan, items) ==
  \A k \in DOMAIN plan :
     /\ plan[k].index = k - 1
     /\ plan[k].source =
          TierOfLine(k, inp.customsItems[k], plan[k].description, items, Consumed(k))
     /\ (plan[k].source = "position" => plan[k].itemIndex = k - 1)

\* C11: the lines are processed in input order and the tiers are tried in the
\* order identifier, exact name, fuzzy name, position: a line is paired by a
\* tier only if every earlier tier failed to pair it, and by position only
\* when the line count equals the item count and the item at the line's
\* index is unconsumed.
C11_TiersInOrder ==
  pc = "matched" =>
    /\ Len(Plan) = Len(inp.customsItems)
    /\ TiersOf(Plan, inormOf(inp.items))

\* a line paired by exact name followed by a line that only the position pairs
C11_Witness ==
  /\ pc = "matched"
  /\ Len(Plan) = 2
  /\ Plan[1].source = "name-exact"
  /\ Plan[2].source = "position"
  /\ Plan[2].itemIndex = 1
\* the plan entries that pair line index c, and those that report it unpaired
\* (status missing, or kept for a line that already carries a sku)
PairsOfLine(c) == {k \in DOMAIN Plan : Plan[k].index = c /\ Paired(k)}
ReportsOfLine(c) == {k \in DOMAIN Plan : Plan[k].index = c /\ ~Paired(k)}
\* the plan entries that pair item index i; the result has the fields patched
\* and customsSkuPlan only, so an item is named by the output only there
PairsOfItem(i) == {k \in DOMAIN Plan : Plan[k].itemIndex = i}

\* C12: every line index and every item index of the order appears either in
\* exactly one pair or in the unmatched report of the output.
C12_ResidueReported ==
  pc = "matched" =>
    /\ \A c \in 0..(Len(inp.customsItems) - 1) :
         \/ Cardinality(PairsOfLine(c)) = 1 /\ ReportsOfLine(c) = {}
         \/ PairsOfLine(c) = {} /\ Cardinality(ReportsOfLine(c)) = 1
    /\ \A i \in 0..(Len(inp.items) - 1) : Cardinality(PairsOfItem(i)) = 1

\* C13: the line "Notebook (bound journal)" and the item "A5 Dotted Notebook",
\* neither with identifiers, are paired by the fuzzy-name tier: their score
\* reaches the threshold, so the line is not left to the position or unpaired.
C13_ScenarioBFuzzy ==
  (/\ pc = "matched"
   /\ Len(inp.items) >= 1
   /\ \A i \in DOMAIN inp.items : inp.items[i] = ScenarioBItem
   /\ Len(inp.customsItems) >= 1
   /\ inp.customsItems[1] = ScenarioBLine) =>
    /\ DblGeq(_scoreNameMatch(ScenarioBLine.description, ScenarioBItem.name).score,
              FUZZY_THRESHOLD)
    /\ Plan[1].source = "name-fuzzy"
    /\ Plan[1].itemIndex = 0

(***************************************************************************)
(* Reconciler properties                                                   *)
(***************************************************************************)
\* C2: a merge never yields fewer lines than the order had: it returns a list
\* at least as long as the existing lines, or it throws.
C2_NoShrinkage ==
  pc = "merged" => (out.threw \/ Len(out.merged) >= Len(out.existing))

C2_Witness ==
  /\ pc = "merged"
  /\ ~out.threw
  /\ Len(out.existing) = 2
  /\ Len(out.merged) = 3
  /\ out.merged[1] # out.existing[1]
  /\ out.merged[2] = out.existing[2]

\* same normalized description, code, origin, value and quantity
SameLine(a, b) ==
  /\ normalize(a.description) = normalize(b.description)
  /\ OrEmpty(a.harmonizedTariffCode) = OrEmpty(b.harmonizedTariffCode)
  /\ OrEmpty(a.countryOfOrigin) = OrEmpty(b.countryOfOrigin)
  /\ a.value = b.value
  /\ a.quantity = b.quantity

\* the iterations of the last merge that matched a line of the order, and
\* those that matched no line
MatchedExisting ==
  {n \in DOMAIN out.steps :
     out.steps[n].classified /\ out.steps[n].idx \in 0..(Len(out.existing) - 1)}
MatchedNone == {n \in DOMAIN out.steps : out.steps[n].classified /\ out.steps[n].idx = -1}
\* three lines and four classified items, three of which match a line of the
\* order and one matches none
ScenarioD ==
  /\ pc = "merged"
  /\ ~out.threw
  /\ Len(out.existing) = 3
  /\ Len(out.steps) = 4
  /\ \A n \in DOMAIN out.steps : out.steps[n].classified
  /\ Cardinality(MatchedExisting) = 3
  /\ Cardinality(MatchedNone) = 1
\* four lines, the three of the order at their index, updated in place or
\* unchanged
OneLineAppended ==
  /\ Len(out.merged) = 4
  /\ \A k \in 1..3 :
       \/ out.merged[k] = out.existing[k]
       \/ \E n \in MatchedExisting :
            out.steps[n].idx = k - 1 /\ out.merged[k] = out.steps[n].line
\* the line of the item that matches none equals a line merged holds already
UnmatchedIsDuplicate ==
  \E n \in MatchedNone :
    \E k \in DOMAIN out.steps[n].before :
      SameLine(out.steps[n].before[k], out.steps[n].line)

\* C14 as stated: merging four classified items, three of which match a line
\* and one matches none, into three lines gives exactly four lines, the
\* three of the order still at their index.
C14_ScenarioD == ScenarioD => OneLineAppended

\* C14, amended: the same, when the line of the item that matches none is not
\* an exact duplicate of a line already merged (such a line is suppressed).
C14_ScenarioDNoDuplicate == (ScenarioD /\ ~UnmatchedIsDuplicate) => OneLineAppended

C14_Witness ==
  /\ ScenarioD
  /\ ~UnmatchedIsDuplicate
  /\ Len(out.merged) = 4
  /\ out.merged[1] # out.existing[1]

\* the iterations of the last merge that matched an existing line
Matched(n) == out.steps[n].classified /\ out.steps[n].idx >= 0

\* C15: an item matched to an existing line updates that line in place: the
\* new line is at the index of the line it replaces and carries the
\* customsItemId that line had before the merge.
C15_UpdateInPlace ==
  (pc = "merged" /\ ~out.threw) =>
    \A n \in DOMAIN out.steps :
      Matched(n) =>
        /\ out.steps[n].idx < Len(out.steps[n].before)
        /\ out.merged[out.steps[n].idx + 1] = out.steps[n].line
        /\ out.steps[n].line.customsItemId =
             out.steps[n].before[out.steps[n].idx + 1].customsItemId

\* the line with identifier c1 is replaced by a line with another description
C15_Witness ==
  /\ pc = "merged"
  /\ \E n \in DOMAIN out.steps :
       /\ Matched(n)
       /\ out.steps[n].before[out.steps[n].idx + 1].customsItemId = "c1"
       /\ out.steps[n].line.description # out.steps[n].before[out.steps[n].idx + 1].description
       /\ out.merged[out.steps[n].idx + 1].customsItemId = "c1"

\* C16: a new line is never appended when the merged lines already hold a line
\* with the same normalized description, code, origin, value and quantity.
C16_NoDuplicateAppended ==
  pc = "merged" =>
    \A n \in DOMAIN out.steps :
      out.steps[n].appended =>
        \A k \in DOMAIN out.steps[n].before :
          ~SameLine(out.steps[n].before[k], out.steps[n].line)

\* an item that matches no line and whose line duplicates a merged line: the
\* line is not appended
C16_Witness ==
  /\ pc = "merged"
  /\ \E n \in DOMAIN out.steps :
       /\ out.steps[n].classified
       /\ out.steps[n].idx = -1
       /\ ~out.steps[n].appended
       /\ \E k \in DOMAIN out.steps[n].before :
            SameLine(out.steps[n].before[k], out.steps[n].line)
       /\ Len(out.merged) = Len(out.steps[n].before)

\* the requests sent so far that carry an items array
WithItems == {n \in DOMAIN out.requests : out.requests[n].payload.hasItems}

\* C28: every request that carries an items array carries, item by item,
\* exactly the orderItemId, SKU and quantity of the fetched order; when the
\* fingerprints of the fetched and the built items differ, the call sends no
\* request with items and throws.
C28_ItemsCarriedExactly ==
  pc = "upsert" =>
    /\ \A n \in WithItems :
         /\ Len(out.requests[n].payload.items) = Len(inp.items)
         /\ \A k \in 1..Len(inp.items) :
              /\ out.requests[n].payload.items[k].orderItemId = inp.items[k].orderItemId
              /\ out.requests[n].payload.items[k].sku = inp.items[k].sku
              /\ out.requests[n].payload.items[k].quantity = inp.items[k].quantity
    /\ fp(inp.items) # fp(buildSafeItems(inp).items) =>
         /\ WithItems = {}
         /\ \A c \in UpsertCalls : out.calls[c].at \notin {"post2", "returned"}

\* the 0-based index of the line that iteration n of the last merge wrote
\* (-1: it wrote none)
WrittenBy(n) ==
  IF out.steps[n].classified /\ out.steps[n].idx >= 0 THEN out.steps[n].idx
  ELSE IF out.steps[n].appended THEN Len(out.steps[n].before)
  ELSE -1

\* C26: within one merge no line is written for two different items: a line
\* updated or appended for an item is not selected and overwritten for a
\* later item of the same call.
C26_OneItemPerLine ==
  pc = "merged" =>
    \A n, m \in DOMAIN out.steps :
      (n < m /\ WrittenBy(n) # -1) => WrittenBy(m) # WrittenBy(n)

\* the structure at the address a call returned is the result of the call
ReturnedOnHeap ==
  CASE out.kind = "sync" -> orderAt(out.heap, out.addr) = out.result.patched
    [] out.kind = "patch" ->
         out.result.canUpdate => patchOrderAt(out.heap, out.addr) = out.result.patchedOrder
    [] out.kind = "merge" ->
         ~out.result.threw => objectsOf(out.heap, out.addr) = out.result.merged
    [] OTHER -> TRUE

\* C22: no call of syncCustomsSkus, buildCustomsPatch or mergeCustomsItems
\* changes the order it is given: every object the caller held (the order,
\* its arrays, its items and its customs lines) is after the call what it was
\* before it, and the result of the call is in the structure the call returns.
C22_InputsUnchanged == [][inp' = inp /\ ReturnedOnHeap']_vars

\* a merge that returned, in an array it created, a line that differs from
\* the line of the order it was given
C22_Witness ==
  /\ pc = "called"
  /\ out.kind = "merge"
  /\ ~out.result.threw
  /\ Len(inp.order.customsItems) = 1
  /\ out.addr > Len(inp.heap)
  /\ Len(out.heap[out.addr]) = 1
  /\ out.heap[out.addr][1] > Len(inp.heap)
  /\ objectsOf(out.heap, out.addr) # inp.order.customsItems
  /\ orderAt(out.heap, inp.root) = inp.order

\* C5: reconciliation is idempotent: a run on an order that already carries the
\* result of the previous run changes nothing (buildCustomsPatch returns an
\* empty diff).
C5_PatchIdempotent ==
  (pc = "patched" /\ runs >= 2) => (Len(out.diff) = 0 /\ ~out.anyCustomsChange)

(***************************************************************************)
(* Trim calls: the segment lists that generate hands to _joinAndTrim (the  *)
(* jewelry, undated-notebook and general patterns) under a generator with  *)
(* a drawn maximum length; each call joins and trims one list.             *)
(***************************************************************************)
TrimParts ==
  {<<"JWL", m, "EAR", p, mat>> : m \in {"LNR", "BLNK"}, p \in {"", "PR", "SN"},
                                 mat \in {"", "GLD-14"}} \cup
  {<<"NTB", st, sz, col, c>> : st \in {"", "DOT", "BLNK"}, sz \in {"", "A5"},
                               col \in {"", "UND"}, c \in {"", "WIS"}} \cup
  {<<"2026", "DLP", st, "MIN", "B5", c, im>> : st \in {"", "LIN"}, c \in {"", "WIS"},
                                               im \in {"", IM_CODE}}

TrimMaxLengths == {4, 10, 13, 16, 20}

InitTrim ==
  /\ pc = "trim"
  /\ inp \in [parts : TrimParts, maxLength : TrimMaxLengths]
  /\ out = [sku |-> "", MAX |-> 0]
  /\ runs = 0

Trim ==
  /\ pc = "trim"
  /\ out' = [sku |-> _joinAndTrim(MAXOf(inp.maxLength), inp.parts),
             MAX |-> MAXOf(inp.maxLength)]
  /\ runs' = runs + 1
  /\ pc' = "trimmed"
  /\ UNCHANGED inp

NextTrim == Trim

SpecTrim == InitTrim /\ [][NextTrim]_vars

(***************************************************************************)
(* Generator properties                                                    *)
(***************************************************************************)
\* C3: the code that generate returns is not used at return time: the used-code
\* predicate the call was given is false of it, whichever step of the
\* uniqueness chain (base, two-letter suffix, time-derived fallback) produced it.
C3_NotUsedAtReturn == pc = "generated" => ~isUsed(out.used, out.sku)

\* C4: the code that generate returns is no longer than the configured maximum
\* length MAX, with or without a uniqueness suffix.
C4_WithinMax == pc = "generated" => Len(out.sku) <= out.MAX

\* a code that ends in two letters of A..Z
EndsInTwoLetters(sku) ==
  /\ Len(sku) >= 2
  /\ CharAt(sku, Len(sku) - 1) \in UpperSet
  /\ CharAt(sku, Len(sku)) \in UpperSet

\* a second code for the same variant: the first one is used, base-AA does
\* not fit MAX, and the code returned carries the suffix within MAX
C4_Witness ==
  /\ pc = "generated"
  /\ runs >= 2
  /\ out.prev # ""
  /\ out.sku # out.prev
  /\ Len(out.prev) + 3 > out.MAX
  /\ EndsInTwoLetters(out.sku)
  /\ Len(out.sku) = out.MAX
  /\ out.MAX = DEFAULT_MAX

\* the second of two calls for the same variant, the code of the first call
\* recorded as used in between
SecondOfTwo ==
  pc = "generated" /\ runs = 2 /\ out.prev # "" /\ toUpperCase(out.prev) \in out.used.codes

\* C17: two calls for items with identical attributes, the first code recorded
\* as used before the second call, give two distinct codes, and the second
\* code carries a two-letter suffix AA..ZZ.
C17_SecondGetsSuffix == SecondOfTwo => (out.sku # out.prev /\ EndsInTwoLetters(out.sku))

\* the base code of the last call, before _uniqueify
BaseOfCall == generateBase(out.MAX, inp.productTitle, inp.variantTitle, inp.options)

\* C18: on every branch of generate the base code has at least two segments,
\* a fallback token being appended when fewer than two informative segments
\* are found (stated at the default maximum length, where nothing is trimmed
\* off these codes).
C18_BaseHasTwoSegments ==
  (pc = "generated" /\ out.MAX = DEFAULT_MAX) => Len(splitHyphen(BaseOfCall)) >= 2

\* the code as joined, before any shortening
Joined == toUpperCase(join(filterBoolean(inp.parts), "-"))
NotPack(x) == ~isPackCode(x)
\* (a) the segments without the pack-size segments
WithoutPacks == SelectSeq(splitHyphen(Joined), NotPack)
\* (b) segs without its last k droppable segments
RECURSIVE DropLast(_, _)
DropLast(segs, k) ==
  IF k = 0 \/ segs = <<>> THEN segs
  ELSE IF segs[Len(segs)] \in dropOne THEN DropLast(SubSeq(segs, 1, Len(segs) - 1), k - 1)
  ELSE Append(DropLast(SubSeq(segs, 1, Len(segs) - 1), k), segs[Len(segs)])
Droppable(segs) == {k \in DOMAIN segs : segs[k] \in dropOne}
\* the numbers of droppable segments whose removal, from the end, makes segs fit
Fits(MAX, segs) ==
  {k \in 0..Cardinality(Droppable(segs)) : Len(join(DropLast(segs, k), "-")) <= MAX}
\* (c) all droppable segments gone and the separators removed
Compacted(segs) == removeHyphens(join(DropLast(segs, Len(segs)), "-"))
\* the steps (a) to (d), each taken only when the steps before it leave the
\* code longer than MAX
Shortened(MAX, joined, segs) ==
  IF Len(joined) <= MAX THEN joined
  ELSE IF Fits(MAX, segs) # {} THEN join(DropLast(segs, MinOf(Fits(MAX, segs))), "-")
  ELSE IF Len(Compacted(segs)) <= MAX THEN Compacted(segs)
  ELSE SubSeq(Compacted(segs), 1, MAX)

\* C19: a joined code longer than the maximum is shortened in the order (a)
\* drop pack-size segments, (b) drop droppable segments from the end, (c)
\* remove the separators, (d) truncate; a later step is taken only when the
\* result of the earlier ones is still longer than the maximum.
C19_ShorteningOrder == pc = "trimmed" => out.sku = Shortened(out.MAX, Joined, WithoutPacks)

\* a pack code and a droppable segment are dropped and the separators stay
C19_Witness ==
  /\ pc = "trimmed"
  /\ Len(Joined) > out.MAX
  /\ WithoutPacks # splitHyphen(Joined)
  /\ Len(join(WithoutPacks, "-")) > out.MAX
  /\ out.sku = join(DropLast(WithoutPacks, 1), "-")
  /\ Len(splitHyphen(out.sku)) = Len(WithoutPacks) - 1

\* C20: for every product title, variant title, option list and used-code
\* predicate, empty titles and a predicate that is true of every candidate
\* included, generate returns a non-empty string.
C20_NeverEmpty == pc = "generated" => out.sku # ""

\* empty titles under a predicate that reports every candidate as used
C20_Witness ==
  /\ pc = "generated"
  /\ inp.productTitle = ""
  /\ inp.variantTitle = ""
  /\ out.used.all
  /\ out.sku # ""
  /\ out.sku # BaseOfCall

\* C27: within one batch over a set of used codes, every generated code is
\* added to the set before the next one is generated, and the codes of the
\* batch are distinct from one another and, whatever their case, from every
\* code that was in use before them.
C27_BatchCodesDistinct ==
  (pc = "generated" /\ ~out.used.all) =>
    /\ toUpperCase(out.sku) \in inp.used.codes
    /\ toUpperCase(out.sku) \notin out.used.codes
    /\ (out.prev # "" => toUpperCase(out.sku) # toUpperCase(out.prev))

(***************************************************************************)
(* shopify-api.js: ShopifyAPI.rateLimit under concurrent callers.  The     *)
(* callers share one ShopifyAPI object (lastRequestTime); each call runs   *)
(* to its await in one step (enter), and a call whose timer has run out    *)
(* resumes in a second step (resume).  Time is Date.now() in milliseconds; *)
(* the callbacks of getVIPCustomers' Promise.all enter one after another   *)
(* with no time passing between them.  node runs a timer by its own        *)
(* monotonic clock: when the callback runs, Date.now() can still read the  *)
(* millisecond before the one the timer was set for.                       *)
(***************************************************************************)
minRequestInterval == 550

MaxCallers == 3
MaxTicks == 5

\* the milliseconds Date.now() can be short of entry time + delay when the
\* callback of setTimeout runs
TimerEarly == 1

\* the clock advances by half an interval at a time, or by that less the
\* millisecond a timer can be early
TickLength == minRequestInterval \div 2
TickLengths == {TickLength - TimerEarly, TickLength}

\* Date.now() is far beyond one interval when the object is constructed
StartOfClock == 2 * minRequestInterval

Caller(at, wake, returned) == [at |-> at, wake |-> wake, returned |-> returned]
NotCalled == Caller("idle", 0, 0)

Limiter(clock, lastRequestTime, callers) ==
  [clock |-> clock, lastRequestTime |-> lastRequestTime, callers |-> callers]

\* rateLimit up to its await: the timer is set, or the call completes
enterRateLimit(now, lastRequestTime) ==
  IF now - lastRequestTime < minRequestInterval
  THEN [lastRequestTime |-> lastRequestTime,
        caller |-> Caller("timer", now + (minRequestInterval - (now - lastRequestTime)), 0)]
  ELSE [lastRequestTime |-> now, caller |-> Caller("returned", 0, now)]

\* rateLimit after its await
resumeRateLimit(now, caller) ==
  [lastRequestTime |-> now, caller |-> Caller("returned", caller.wake, now)]

InitLimiter ==
  /\ pc = "limit"
  /\ inp \in [callers : 1..MaxCallers]
  /\ out = Limiter(StartOfClock, 0, [c \in 1..inp.callers |-> NotCalled])
  /\ runs = 0

\* caller c awaits this.rateLimit()
Enter(c) ==
  /\ pc = "limit"
  /\ out.callers[c].at = "idle"
  /\ LET r == enterRateLimit(out.clock, out.lastRequestTime)
     IN out' = [out EXCEPT !.lastRequestTime = r.lastRequestTime, !.callers[c] = r.caller]
  /\ UNCHANGED <<pc, inp, runs>>

\* node fires the timer of caller c and its rateLimit completes
Resume(c) ==
  /\ pc = "limit"
  /\ out.callers[c].at = "timer"
  /\ out.clock >= out.callers[c].wake - TimerEarly
  /\ LET r == resumeRateLimit(out.clock, out.callers[c])
     IN out' = [out EXCEPT !.lastRequestTime = r.lastRequestTime, !.callers[c] = r.caller]
  /\ UNCHANGED <<pc, inp, runs>>

\* time passes
Tick ==
  /\ pc = "limit"
  /\ runs < MaxTicks
  /\ \E d \in TickLengths : out' = [out EXCEPT !.clock = out.clock + d]
  /\ runs' = runs + 1
  /\ UNCHANGED <<pc, inp>>

NextLimiter ==
  \/ \E c \in 1..MaxCallers : c <= inp.callers /\ Enter(c)
  \/ \E c \in 1..MaxCallers : c <= inp.callers /\ Resume(c)
  \/ Tick

SpecLimiter == InitLimiter /\ [][NextLimiter]_vars

(***************************************************************************)
(* Limiter properties                                                      *)
(***************************************************************************)
Returned == {c \in DOMAIN out.callers : out.callers[c].at = "returned"}
Apart(a, b) == IF a >= b THEN a - b ELSE b - a

\* C29: any two callers that have returned from rateLimit returned at least
\* minRequestInterval apart.
C29_ReturnsSpaced ==
  pc = "limit" =>
    \A c, d \in Returned :
       c # d => Apart(out.callers[c].returned, out.callers[d].returned) >= minRequestInterval

(***************************************************************************)
(* part_006: ShipStationCustomsUpdater.findAndDeactivateDuplicates and     *)
(* testFetchOnly.  inp.products is the catalogue ShipStation holds; a      *)
(* product carries the fields the run reads: productId, sku, the date it   *)
(* sorts by (modifyDate || createDate, as a number) and active.  out is    *)
(* the run: its locals (page, hasMore, allProducts, deactivationPlan, the  *)
(* position of the for loop), this.deactivated and this.errors, and the    *)
(* requests it has sent (gets: the pages, puts: the product ids).  A step  *)
(* is the code between two awaits.                                         *)
(***************************************************************************)
MaxProducts == 4

\* pageSize: 500
PageSize == 500

Product(productId, sku, date, active) ==
  [productId |-> productId, sku |-> sku, date |-> date, active |-> active]

\* response.data.products of GET /products?page=..&pageSize=..: ShipStation
\* pages the catalogue by the pageSize asked
PageOf(products, page) ==
  SubSeq(products, (page - 1) * PageSize + 1,
         IF page * PageSize < Len(products) THEN page * PageSize ELSE Len(products))

\* response.data.pages
PagesOf(products) == (Len(products) + PageSize - 1) \div PageSize

\* product.sku ? product.sku.trim() : 'NO_SKU'
skuGroupKey(product) == IF Truthy(product.sku) THEN trim(product.sku) ELSE "NO_SKU"

\* skuGroups[sku] of a fresh object literal is inherited for these keys: it is
\* truthy, no array is stored, and skuGroups[sku].push is not a function
groupingThrows(allProducts) ==
  \E k \in 1..Len(allProducts) : skuGroupKey(allProducts[k]) \in ObjectPrototypeKeys

\* skuGroups[sku], in the order the products were pushed
skuGroup(allProducts, sku) == SelectSeq(allProducts, LAMBDA p : skuGroupKey(p) = sku)

\* the positions of the products whose key no product before them has: they
\* set their key
firstOfKey(allProducts) ==
  SelectSeq([k \in 1..Len(allProducts) |-> k],
            LAMBDA k : \A j \in 1..(k - 1) :
                         skuGroupKey(allProducts[j]) # skuGroupKey(allProducts[k]))

\* the keys of skuGroups in the order they were first set
firstSet(allProducts) ==
  [i \in 1..Len(firstOfKey(allProducts)) |->
     skuGroupKey(allProducts[firstOfKey(allProducts)[i]])]

DigitOf(c) == CHOOSE d \in 0..(Len(Digits) - 1) : CharAt(Digits, d + 1) = c

\* a < b for two numerals of the same length
RECURSIVE NumeralLess(_, _)
NumeralLess(a, b) ==
  IF a = "" THEN FALSE
  ELSE IF Head(a) # Head(b) THEN DigitOf(Head(a)) < DigitOf(Head(b))
  ELSE NumeralLess(Tail(a), Tail(b))

\* a < b for two canonical numerals
IndexLess(a, b) == Len(a) < Len(b) \/ (Len(a) = Len(b) /\ NumeralLess(a, b))

\* 2^32 - 2, the largest array index
MaxArrayIndex == "4294967294"

\* an integer-like key: a canonical numeral up to the largest array index
IsArrayIndex(key) ==
  /\ key # ""
  /\ \A k \in 1..Len(key) : CharAt(key, k) \in DigitSet
  /\ (Len(key) = 1 \/ Head(key) # "0")
  /\ ~IndexLess(MaxArrayIndex, key)

insertIndex(sorted, key) ==
  SelectSeq(sorted, LAMBDA q : IndexLess(q, key)) \o <<key>> \o
  SelectSeq(sorted, LAMBDA q : ~IndexLess(q, key))

RECURSIVE ascending(_, _, _)
ascending(keys, k, sorted) ==
  IF k > Len(keys) THEN sorted ELSE ascending(keys, k + 1, insertIndex(sorted, keys[k]))

\* Object.keys(skuGroups): the integer-like keys in ascending order, then the
\* other keys in the order they were first set
skuKeys(allProducts) ==
  ascending(SelectSeq(firstSet(allProducts), IsArrayIndex), 1, <<>>) \o
  SelectSeq(firstSet(allProducts), LAMBDA key : ~IsArrayIndex(key))

\* the products of the most recent of the dates in the order they have in
\* the group, then those of the other dates likewise
RECURSIVE sortedFrom(_, _)
sortedFrom(group, dates) ==
  IF dates = {} THEN <<>>
  ELSE SelectSeq(group, LAMBDA p : \A d \in dates : p.date >= d) \o
       sortedFrom(SelectSeq(group, LAMBDA p : \E d \in dates : p.date < d),
                  {d \in dates : \E e \in dates : d < e})

\* skuGroups[sku].sort((a, b) => dateB - dateA), a stable sort
sortedProducts(group) == sortedFrom(group, {group[k].date : k \in 1..Len(group)})

\* the older duplicates of one SKU that are active
planOfGroup(group) ==
  IF Len(group) > 1
  THEN SelectSeq(Tail(sortedProducts(group)), LAMBDA p : p.active)
  ELSE <<>>

\* Object.keys(skuGroups).forEach(...) from key k on
RECURSIVE planFrom(_, _, _)
planFrom(allProducts, keys, k) ==
  IF k > Len(keys) THEN <<>>
  ELSE planOfGroup(skuGroup(allProducts, keys[k])) \o planFrom(allProducts, keys, k + 1)

deactivationPlan(allProducts) == planFrom(allProducts, skuKeys(allProducts), 1)

\* a run that has sent no request
NoRun ==
  [entry |-> "none", testMode |-> TRUE, page |-> 1, hasMore |-> TRUE, allProducts |-> <<>>,
   gets |-> <<>>, plan |-> <<>>, next |-> 0, puts |-> <<>>, deactivated |-> 0,
   errors |-> <<>>, caught |-> FALSE]

\* shipstation.get('/products', {params: {page, pageSize}}) is sent
getPage(run) == [run EXCEPT !.gets = Append(@, run.page)]

\* the call up to its first await: page = 1, hasMore = true, allProducts = [],
\* and the first page is requested
findAndDeactivateDuplicates(entry, testMode) ==
  getPage([NoRun EXCEPT !.entry = entry, !.testMode = testMode])

\* this.findAndDeactivateDuplicates(false)
testFetchOnly == findAndDeactivateDuplicates("testFetchOnly", FALSE)

\* allProducts.push(...response.data.products); hasMore = pages > page; page++
fetched(run, products, pages) ==
  [run EXCEPT !.allProducts = @ \o products, !.hasMore = pages > run.page, !.page = @ + 1]

\* the for loop over deactivationPlan reaches its next product: the PUT of
\* the product is sent; past the last product the run ends
putNext(run) ==
  IF run.next < Len(run.plan)
  THEN [run EXCEPT !.next = @ + 1, !.puts = Append(@, run.plan[run.next + 1].productId)]
  ELSE run

\* the catalogue after PUT /products/{productId} with active: false
deactivatedIn(products, productId) ==
  [k \in 1..Len(products) |->
     IF products[k].productId = productId THEN [products[k] EXCEPT !.active = FALSE]
     ELSE products[k]]

\* grouping and analysis, then the start of the for loop
analysed(run) ==
  IF groupingThrows(run.allProducts) THEN [run EXCEPT !.caught = TRUE]
  ELSE IF ~run.testMode /\ Len(deactivationPlan(run.allProducts)) > 0
  THEN putNext([run EXCEPT !.plan = deactivationPlan(run.allProducts)])
  ELSE [run EXCEPT !.plan = deactivationPlan(run.allProducts)]

\* where the run waits after a step of the for loop
AfterPut(before, after) == IF Len(after.puts) > Len(before.puts) THEN "put" ELSE "ran"

\* the products a catalogue is drawn from
ProductPool ==
  {[sku |-> "PLN-1", date |-> 1, active |-> TRUE],
   [sku |-> " PLN-1 ", date |-> 2, active |-> TRUE],
   [sku |-> Null, date |-> 1, active |-> FALSE],
   [sku |-> Null, date |-> 1, active |-> TRUE],
   [sku |-> "7", date |-> 2, active |-> TRUE],
   [sku |-> "12", date |-> 1, active |-> TRUE],
   [sku |-> "constructor", date |-> 1, active |-> TRUE]}

\* the products of a catalogue, numbered in the order they are listed
CatalogueOf(fields) ==
  [k \in 1..Len(fields) |-> Product(k, fields[k].sku, fields[k].date, fields[k].active)]

\* a catalogue of more than one page: a page of inactive products without a
\* SKU, and an older active one after them
TwoPages ==
  [k \in 1..PageSize |-> [sku |-> Null, date |-> 2, active |-> FALSE]] \o
  <<[sku |-> Null, date |-> 1, active |-> TRUE]>>

InitDuplicates ==
  /\ pc = "run"
  /\ \E fields \in SeqsUpTo(ProductPool, MaxProducts) \cup {TwoPages} :
       inp = [products |-> CatalogueOf(fields)]
  /\ out = NoRun
  /\ runs = 0

\* findAndDeactivateDuplicates(true)
RunTestMode ==
  /\ pc = "run"
  /\ out' = findAndDeactivateDuplicates("test", TRUE)
  /\ pc' = "get"
  /\ UNCHANGED <<inp, runs>>

\* findAndDeactivateDuplicates(false)
RunProduction ==
  /\ pc = "run"
  /\ out' = findAndDeactivateDuplicates("production", FALSE)
  /\ pc' = "get"
  /\ UNCHANGED <<inp, runs>>

\* testFetchOnly(), the call main() makes
RunTestFetchOnly ==
  /\ pc = "run"
  /\ out' = testFetchOnly
  /\ pc' = "get"
  /\ UNCHANGED <<inp, runs>>

\* the GET resolves with the page of the catalogue; delay(500) starts
GetResolved ==
  /\ pc = "get"
  /\ out' = fetched(out, PageOf(inp.products, out.page), PagesOf(inp.products))
  /\ pc' = "fetched"
  /\ UNCHANGED <<inp, runs>>

\* the GET rejects: the outer catch logs the error and the run ends
GetRejected ==
  /\ pc = "get"
  /\ out' = [out EXCEPT !.caught = TRUE]
  /\ pc' = "ran"
  /\ UNCHANGED <<inp, runs>>

\* delay(500) has elapsed and hasMore holds: the next page is requested
NextPage ==
  /\ pc = "fetched"
  /\ out.hasMore
  /\ out' = getPage(out)
  /\ pc' = "get"
  /\ UNCHANGED <<inp, runs>>

\* delay(500) has elapsed after the last page: the products are grouped and
\* analysed, and outside test mode the first PUT is sent
Analyse ==
  /\ pc = "fetched"
  /\ ~out.hasMore
  /\ out' = analysed(out)
  /\ pc' = AfterPut(out, out')
  /\ UNCHANGED <<inp, runs>>

\* the PUT resolves: ShipStation holds the product as inactive,
\* this.deactivated++, delay(1500) starts
PutResolved ==
  /\ pc = "put"
  /\ inp' = [inp EXCEPT !.products = deactivatedIn(@, out.plan[out.next].productId)]
  /\ out' = [out EXCEPT !.deactivated = @ + 1]
  /\ pc' = "deactivated"
  /\ UNCHANGED runs

\* the PUT rejects: the inner catch records the error and the loop goes on
PutRejected ==
  /\ pc = "put"
  /\ out' = putNext([out EXCEPT !.errors = Append(@, out.plan[out.next].productId)])
  /\ pc' = AfterPut(out, out')
  /\ UNCHANGED <<inp, runs>>

\* delay(1500) has elapsed: the loop goes on
PutDelay ==
  /\ pc = "deactivated"
  /\ out' = putNext(out)
  /\ pc' = AfterPut(out, out')
  /\ UNCHANGED <<inp, runs>>

NextDuplicates ==
  \/ RunTestMode \/ RunProduction \/ RunTestFetchOnly
  \/ GetResolved \/ GetRejected \/ NextPage \/ Analyse
  \/ PutResolved \/ PutRejected \/ PutDelay

SpecDuplicates == InitDuplicates /\ [][NextDuplicates]_vars

(***************************************************************************)
(* Duplicates properties                                                   *)
(***************************************************************************)
\* C30: a run in test mode, and a run of testFetchOnly, sends no PUT and
\* deactivates no product.
C30_TestModeNoChanges ==
  (pc = "ran" /\ out.entry \in {"test", "testFetchOnly"}) =>
    /\ out.puts = <<>>
    /\ out.deactivated = 0

====
